---- MODULE Spec2Model ----
(***************************************************************************)
(* bongoo: the SRT -> LRC subtitle converter (src/lyrics.py).              *)
(*                                                                         *)
(* Text is modelled at the character level: a Python str is a sequence of  *)
(* one-character strings, and every regular expression, split, strip and   *)
(* join of the source is an operator that works on those characters.       *)
(*                                                                         *)
(* Two specifications:                                                     *)
(*   SpecTime  direct calls of srt_time_to_lrc on bounded timestamp text   *)
(*   Spec      calls of srt_to_lrc on a small file system                  *)
(***************************************************************************)
EXTENDS Integers, Sequences, FiniteSets, TLC

VARIABLES
    \* ---- srt_time_to_lrc, called directly
    time_parts,   \* how the argument was put together (history, for the properties)
    srt_time,     \* the argument: a character sequence
    time_called,  \* whether the call has been made
    time_ret,     \* what the call returned
    \* ---- srt_to_lrc
    fs0,          \* the file system before the call (history, for the properties)
    fs,           \* the file system: path -> node
    srt_path,     \* argument
    lrc_arg,      \* argument lrc_path as passed (None when left out)
    lrc_path,     \* local lrc_path after line 32
    pc,           \* position in srt_to_lrc
    handles,      \* file handles the call holds open
    content,      \* local content
    blocks,       \* local blocks
    bi,           \* the for loop's position in blocks (1-based)
    lines,        \* local lines
    ret,          \* the value returned
    exc,          \* the exception that left the call, "" when none
    \* ---- the downloader: download.py run from the command line, or app.py
    entry,        \* which program runs: "cli", "gui", "none" (history)
    env,          \* what the world outside answers: ffmpeg, cookies, the extractor, ...
    dirs,         \* the directories on disk, as absolute paths
    cli,          \* download.py: argv, position, locals, what was printed, exit status
    app,          \* app.py: the fields of the App object and of its widgets
    after_queue,  \* app.py: the callbacks handed to self.after(0, ...), oldest first
    threads,      \* app.py: the do_download threads started so far, oldest first
    \* ---- stems.py
    stems         \* the module's global flag, torchaudio.save, and the call in progress

timeVars == <<time_parts, srt_time, time_called, time_ret>>
callVars == <<fs0, fs, srt_path, lrc_arg, lrc_path, pc, handles, content, blocks, bi,
              lines, ret, exc>>
lyricsVars == <<timeVars, callVars>>
dlVars == <<entry, env, dirs, cli, app, after_queue, threads>>
stemsVars == <<stems>>
vars == <<time_parts, srt_time, time_called, time_ret, fs0, fs, srt_path, lrc_arg,
          lrc_path, pc, handles, content, blocks, bi, lines, ret, exc, entry, env, dirs,
          cli, app, after_queue, threads, stems>>

\* the downloader at rest: neither program runs
DownloadIdle ==
    /\ entry = "none" /\ env = <<>> /\ dirs = {} /\ cli = <<>> /\ app = <<>>
    /\ after_queue = <<>> /\ threads = <<>>

\* stems.py not loaded
StemsIdle == stems = <<>>

(***************************************************************************)
(* Optional values: Python's None against a str.                           *)
(***************************************************************************)
None == [some |-> FALSE, val |-> <<>>]

Some(v) == [some |-> TRUE, val |-> v]

(***************************************************************************)
(* Characters.                                                             *)
(***************************************************************************)
\* what \d matches (ASCII digits; other Unicode digits are outside the model)
IsDigit(c) == c \in {"0", "1", "2", "3", "4", "5", "6", "7", "8", "9"}

\* what \s matches and what str.strip() removes
IsSpace(c) == c \in {" ", "\t", "\n", "\r", "\f"}

\* int() of one digit
DigitVal(c) ==
    CASE c = "0" -> 0 [] c = "1" -> 1 [] c = "2" -> 2 [] c = "3" -> 3 [] c = "4" -> 4
      [] c = "5" -> 5 [] c = "6" -> 6 [] c = "7" -> 7 [] c = "8" -> 8 [] c = "9" -> 9

\* str() of one digit
DigitChar(d) ==
    CASE d = 0 -> "0" [] d = 1 -> "1" [] d = 2 -> "2" [] d = 3 -> "3" [] d = 4 -> "4"
      [] d = 5 -> "5" [] d = 6 -> "6" [] d = 7 -> "7" [] d = 8 -> "8" [] d = 9 -> "9"

(***************************************************************************)
(* Strings.                                                                *)
(***************************************************************************)
\* s[i:] with a 1-based i
Drop(s, i) == SubSeq(s, i, Len(s))

\* int(s) for a string of digits
RECURSIVE ParseInt(_)
ParseInt(s) ==
    IF s = <<>> THEN 0
    ELSE 10 * ParseInt(SubSeq(s, 1, Len(s) - 1)) + DigitVal(s[Len(s)])

\* str(n) for n >= 0
RECURSIVE IntToStr(_)
IntToStr(n) ==
    IF n < 10 THEN <<DigitChar(n)>>
    ELSE Append(IntToStr(n \div 10), DigitChar(n % 10))

\* a number formatted without padding
FmtUnpadded(n) == IntToStr(n)

\* format(n, "02d"): at least two digits, zero-padded on the left, never cut
Fmt02d(n) == IF n < 10 THEN <<"0">> \o IntToStr(n) ELSE IntToStr(n)

\* the least and the greatest element of a non-empty set of integers
MinOf(S) == CHOOSE x \in S : \A y \in S : x <= y

MaxOf(S) == CHOOSE x \in S : \A y \in S : y <= x

\* the elements of a set of integers in increasing order
Sorted(S) ==
    [k \in 1..Cardinality(S) |-> CHOOSE x \in S : Cardinality({y \in S : y < x}) = k - 1]

\* the positions of character c in s
Positions(s, c) == {i \in 1..Len(s) : s[i] = c}

\* the length of the longest run of digits that starts at s[i]: a greedy \d*
RECURSIVE DigitRun(_, _)
DigitRun(s, i) ==
    IF i <= Len(s) /\ IsDigit(s[i]) THEN 1 + DigitRun(s, i + 1) ELSE 0

\* the length of the longest run of whitespace that starts at s[i]: a greedy \s*
RECURSIVE SpaceRun(_, _)
SpaceRun(s, i) ==
    IF i <= Len(s) /\ IsSpace(s[i]) THEN 1 + SpaceRun(s, i + 1) ELSE 0

\* the length of the run of whitespace that ends at s[i]
RECURSIVE SpaceRunBack(_, _)
SpaceRunBack(s, i) ==
    IF i >= 1 /\ IsSpace(s[i]) THEN 1 + SpaceRunBack(s, i - 1) ELSE 0

\* str.strip(): without the whitespace at either end
Strip(s) == SubSeq(s, 1 + SpaceRun(s, 1), Len(s) - SpaceRunBack(s, Len(s)))

\* sep.join(parts)
RECURSIVE Join(_, _)
Join(parts, sep) ==
    IF parts = <<>> THEN <<>>
    ELSE IF Len(parts) = 1 THEN parts[1]
    ELSE parts[1] \o sep \o Join(Tail(parts), sep)

\* s.split('\n'): cut at every line break, empty pieces kept
SplitLines(s) ==
    LET nl == Sorted(Positions(s, "\n"))
        n  == Len(nl)
    IN  [k \in 1..(n + 1) |->
            SubSeq(s, IF k = 1 THEN 1 ELSE nl[k - 1] + 1,
                      IF k = n + 1 THEN Len(s) ELSE nl[k] - 1)]

(***************************************************************************)
(* srt_time_to_lrc                                                         *)
(***************************************************************************)
NoMatch == [ok |-> FALSE, h |-> <<>>, m |-> <<>>, s |-> <<>>, ms |-> <<>>, end |-> 0]

\* re.match(r'(\d+):(\d+):(\d+)[,.](\d+)', s) tried at s[i]: the four groups and
\* the position after the match.  Each \d+ is greedy, and giving digits back
\* never helps (the character after a shorter run is a digit), so the match is
\* the one that takes every run whole.  A match is a match of a prefix: what
\* follows the fraction is not looked at.
TimeMatchAt(s, i) ==
    LET n1 == DigitRun(s, i)
        p1 == i + n1
        n2 == DigitRun(s, p1 + 1)
        p2 == p1 + 1 + n2
        n3 == DigitRun(s, p2 + 1)
        p3 == p2 + 1 + n3
        n4 == DigitRun(s, p3 + 1)
        p4 == p3 + 1 + n4
    IN  IF /\ n1 > 0 /\ p1 <= Len(s) /\ s[p1] = ":"
           /\ n2 > 0 /\ p2 <= Len(s) /\ s[p2] = ":"
           /\ n3 > 0 /\ p3 <= Len(s) /\ s[p3] \in {",", "."}
           /\ n4 > 0
        THEN [ok |-> TRUE,
              h  |-> SubSeq(s, i, p1 - 1),
              m  |-> SubSeq(s, p1 + 1, p2 - 1),
              s  |-> SubSeq(s, p2 + 1, p3 - 1),
              ms |-> SubSeq(s, p3 + 1, p4 - 1),
              end |-> p4]
        ELSE NoMatch

\* a quotient rounded to the nearest hundredth, where the source truncates
CentisecRounded(ms) == (ms + 5) \div 10

\* int(ms / 10): a float division and a truncation, which is the integer
\* quotient for every fraction the model reaches (exact below 2^49)
Centisec(ms) == ms \div 10

srt_time_to_lrc(t) ==
    LET mt == TimeMatchAt(t, 1)
    IN  IF ~mt.ok THEN None
        ELSE LET h  == ParseInt(mt.h)
                 m  == ParseInt(mt.m)
                 s  == ParseInt(mt.s)
                 ms == ParseInt(mt.ms)
                 total_min == h * 60 + m
                 centisec  == Centisec(ms)
             IN  Some(<<"[">> \o Fmt02d(total_min) \o <<":">> \o Fmt02d(s) \o <<".">>
                      \o Fmt02d(centisec) \o <<"]">>)

(***************************************************************************)
(* SpecTime: srt_time_to_lrc called directly.                              *)
(*                                                                         *)
(* The argument is lead \o h ":" m ":" s sep f \o trail.  Well-formed       *)
(* timestamps take every digit string up to the bounds in each field;      *)
(* mangled ones take short fields (empty included) with a leading or       *)
(* trailing character, another separator or none.                          *)
(***************************************************************************)
MaxIntDigits == 2

MaxFracDigits == 3

TimeDigits == {"0", "9"}

\* the digit strings over TimeDigits of 1..n characters
RECURSIVE DigitStrs(_)
DigitStrs(n) ==
    IF n = 0 THEN {}
    ELSE LET shorter == DigitStrs(n - 1)
         IN  {<<d>> : d \in TimeDigits} \cup shorter
             \cup {Append(t, d) : t \in shorter, d \in TimeDigits}

Parts(lead, h, m, s, sep, f, trail) ==
    [lead |-> lead, h |-> h, m |-> m, s |-> s, sep |-> sep, f |-> f, trail |-> trail]

Assemble(p) ==
    p.lead \o p.h \o <<":">> \o p.m \o <<":">> \o p.s \o p.sep \o p.f \o p.trail

\* the timestamps the specification and the source's comments give as examples
ExampleParts ==
    { Parts(<<>>, <<"0","0">>, <<"0","1">>, <<"2","3">>, <<",">>, <<"4","5","6">>, <<>>),
      Parts(<<>>, <<"0","1">>, <<"0","2">>, <<"0","3">>, <<",">>, <<"0","0","0">>, <<>>),
      Parts(<<>>, <<"0","0">>, <<"0","1">>, <<"2","5">>, <<",">>, <<"7","8","9">>, <<>>) }

WellFormedParts ==
    { Parts(<<>>, h, m, s, <<sep>>, f, <<>>) :
        h \in DigitStrs(MaxIntDigits), m \in DigitStrs(MaxIntDigits),
        s \in DigitStrs(MaxIntDigits), sep \in {",", "."},
        f \in DigitStrs(MaxFracDigits) }

ShortField == {<<>>, <<"0">>, <<"9">>}

MangledParts ==
    { Parts(lead, h, m, s, sep, f, trail) :
        lead \in {<<>>, <<"x">>}, h \in ShortField, m \in ShortField, s \in ShortField,
        sep \in {<<",">>, <<".">>, <<";">>, <<>>}, f \in ShortField,
        trail \in {<<>>, <<"x">>, <<" ">>} }

\* the srt_to_lrc side at rest
CallIdle ==
    /\ fs0 = <<>> /\ fs = <<>> /\ srt_path = <<>> /\ lrc_arg = None /\ lrc_path = <<>>
    /\ pc = "idle" /\ handles = {} /\ content = <<>> /\ blocks = <<>> /\ bi = 0
    /\ lines = <<>> /\ ret = None /\ exc = ""

InitTime ==
    /\ time_parts \in ExampleParts \cup WellFormedParts \cup MangledParts
    /\ srt_time = Assemble(time_parts)
    /\ time_called = FALSE
    /\ time_ret = None
    /\ CallIdle
    /\ DownloadIdle
    /\ StemsIdle

\* a caller evaluates srt_time_to_lrc(srt_time)
CallTime ==
    /\ ~time_called
    /\ time_called' = TRUE
    /\ time_ret' = srt_time_to_lrc(srt_time)
    /\ UNCHANGED <<time_parts, srt_time>>
    /\ UNCHANGED <<callVars, dlVars, stemsVars>>

NextTime == CallTime

SpecTime == InitTime /\ [][NextTime]_vars

(***************************************************************************)
(* Properties of srt_time_to_lrc (under SpecTime).                         *)
(***************************************************************************)
AllDigits(s) == \A i \in 1..Len(s) : IsDigit(s[i])

\* a decimal numeral of value n, at least two digits long, with no padding
\* beyond the second digit
IsPadded2(s, n) ==
    /\ Len(s) >= 2
    /\ AllDigits(s)
    /\ ParseInt(s) = n
    /\ (Len(s) > 2 => s[1] # "0")

\* r is '[' minutes ':' seconds '.' centiseconds ']' for the given values
IsLrcStamp(r, minutes, seconds, centis) ==
    \E a, b \in 1..Len(r) :
        /\ a < b
        /\ Positions(r, ":") = {a}
        /\ Positions(r, ".") = {b}
        /\ r[1] = "["
        /\ r[Len(r)] = "]"
        /\ IsPadded2(SubSeq(r, 2, a - 1), minutes)
        /\ IsPadded2(SubSeq(r, a + 1, b - 1), seconds)
        /\ IsPadded2(SubSeq(r, b + 1, Len(r) - 1), centis)
        /\ b + 3 = Len(r)

\* the argument was put together as H:MM:SS, ',' or '.', and a fraction
IsTimestampParts(p) ==
    /\ p.lead = <<>> /\ p.trail = <<>>
    /\ p.h # <<>> /\ p.m # <<>> /\ p.s # <<>> /\ p.f # <<>>
    /\ p.sep \in {<<",">>, <<".">>}

\* C1: for a timestamp H:MM:SS[,.]mmm with a three-digit fraction, the result is
\* '[' (H*60+MM, two digits or more, not reduced) ':' (SS, two digits or more)
\* '.' (mmm div 10, exactly two digits) ']': the centiseconds are truncated.
C1_TimestampConversion ==
    (time_called /\ IsTimestampParts(time_parts) /\ Len(time_parts.f) = 3) =>
        /\ time_ret.some
        /\ IsLrcStamp(time_ret.val,
                      ParseInt(time_parts.h) * 60 + ParseInt(time_parts.m),
                      ParseInt(time_parts.s),
                      ParseInt(time_parts.f) \div 10)

\* C1 witness: 9:09:09,999 has been converted: 549 minutes, and 999 ms is 99
\* hundredths, not 100
C1_Witness ==
    /\ time_called
    /\ srt_time = <<"9", ":", "0", "9", ":", "0", "9", ",", "9", "9", "9">>
    /\ time_ret = Some(<<"[", "5", "4", "9", ":", "0", "9", ".", "9", "9", "]">>)

\* t as a whole is digits ':' digits ':' digits, ',' or '.', digits
IsWholeTimestamp(t) ==
    \E a, b, c \in 1..Len(t) :
        /\ 1 < a /\ a + 1 < b /\ b + 1 < c /\ c < Len(t)
        /\ t[a] = ":" /\ t[b] = ":" /\ t[c] \in {",", "."}
        /\ \A i \in (1..Len(t)) \ {a, b, c} : IsDigit(t[i])

\* C8: srt_time_to_lrc returns None for every string that is not, as a whole,
\* a timestamp, and a bracketed string for every string that is.
C8_NoneUnlessWholeTimestamp ==
    time_called => (time_ret.some <=> IsWholeTimestamp(srt_time))

(***************************************************************************)
(* srt_to_lrc: the text operations of the block loop.                      *)
(***************************************************************************)
\* the line breaks of s among the whitespace that directly follows s[i]
NewlinesAfter(s, i) ==
    {j \in (i + 1)..(i + SpaceRun(s, i + 1)) : s[j] = "\n"}

\* re.split(r'\n\s*\n', s) from s[start] on.  The next separator starts at the
\* first line break that has another line break in the whitespace after it and,
\* \s* being greedy and matching line breaks too, ends at the last such one.
RECURSIVE SplitBlocksFrom(_, _)
SplitBlocksFrom(s, start) ==
    LET begins == {i \in start..Len(s) : s[i] = "\n" /\ NewlinesAfter(s, i) # {}}
    IN  IF begins = {} THEN <<SubSeq(s, start, Len(s))>>
        ELSE LET i == MinOf(begins)
                 j == MaxOf(NewlinesAfter(s, i))
             IN  <<SubSeq(s, start, i - 1)>> \o SplitBlocksFrom(s, j + 1)

\* a split at runs of line breaks only: whitespace between two line breaks keeps
\* them from separating
RECURSIVE SplitAtNewlineRunsFrom(_, _)
SplitAtNewlineRunsFrom(s, start) ==
    LET begins == {i \in start..(Len(s) - 1) : s[i] = "\n" /\ s[i + 1] = "\n"}
    IN  IF begins = {} THEN <<SubSeq(s, start, Len(s))>>
        ELSE LET i == MinOf(begins)
                 j == MaxOf({k \in i..Len(s) : \A q \in i..k : s[q] = "\n"})
             IN  <<SubSeq(s, start, i - 1)>> \o SplitAtNewlineRunsFrom(s, j + 1)

SplitAtNewlineRuns(s) == SplitAtNewlineRunsFrom(s, 1)

SplitBlocks(s) == SplitBlocksFrom(s, 1)

\* whether s has t at position i
HasAt(s, i, t) == i + Len(t) - 1 <= Len(s) /\ SubSeq(s, i, i + Len(t) - 1) = t

\* re.match(r'(\d+:\d+:\d+[,.]\d+)\s*-->\s*(\d+:\d+:\d+[,.]\d+)', line): whether
\* it matches and group 1.  What follows the second timestamp is not looked at.
TimeRangeMatch(line) ==
    LET m1 == TimeMatchAt(line, 1)
        a  == m1.end + SpaceRun(line, m1.end)
        b  == a + 3 + SpaceRun(line, a + 3)
    IN  IF m1.ok /\ HasAt(line, a, <<"-", "-", ">">>) /\ TimeMatchAt(line, b).ok
        THEN [ok |-> TRUE, g1 |-> SubSeq(line, 1, m1.end - 1)]
        ELSE [ok |-> FALSE, g1 |-> <<>>]

\* the first '>' at or after s[i], 0 when there is none
FirstGt(s, i) ==
    LET gts == {j \in i..Len(s) : s[j] = ">"}
    IN  IF gts = {} THEN 0 ELSE MinOf(gts)

\* the positions from s[start] on where <[^>]+> matches: a '<' with a '>' after
\* it and at least one character between ([^>] takes '<' too, so the tag runs
\* to the first '>')
TagStarts(s, start) ==
    {i \in start..Len(s) : s[i] = "<" /\ FirstGt(s, i + 1) >= i + 2}

\* re.sub(r'<[^>]+>', '', s) from s[start] on: the leftmost tag is cut out and
\* the search goes on after it
RECURSIVE StripTagsFrom(_, _)
StripTagsFrom(s, start) ==
    LET tags == TagStarts(s, start)
    IN  IF tags = {} THEN Drop(s, start)
        ELSE LET i == MinOf(tags)
             IN  SubSeq(s, start, i - 1) \o StripTagsFrom(s, FirstGt(s, i + 1) + 1)

\* a substitution that stops after the first tag
StripFirstTag(s) ==
    LET tags == TagStarts(s, 1)
    IN  IF tags = {} THEN s
        ELSE LET i == MinOf(tags)
             IN  SubSeq(s, 1, i - 1) \o Drop(s, FirstGt(s, i + 1) + 1)

StripTags(s) == StripTagsFrom(s, 1)

\* lines 62-63: the text of a block from its lines
CleanText(block_lines) == Strip(StripTags(Join(Drop(block_lines, 3), <<" ">>)))

\* a loop body that gives up on the first malformed block: what was collected
\* so far is lost
ProcessBlockAborting(block, acc) ==
    LET block_lines == SplitLines(Strip(block))
    IN  IF Len(block_lines) < 3 THEN <<>>
        ELSE LET time_match == TimeRangeMatch(block_lines[2])
             IN  IF ~time_match.ok THEN <<>>
                 ELSE LET lrc_time == srt_time_to_lrc(time_match.g1)
                          text     == CleanText(block_lines)
                      IN  IF lrc_time.some /\ text # <<>>
                          THEN Append(acc, lrc_time.val \o text)
                          ELSE acc

\* lines 45-65: one pass of the for loop over block, acc being lines
ProcessBlock(block, acc) ==
    LET block_lines == SplitLines(Strip(block))
    IN  IF Len(block_lines) < 3 THEN acc
        ELSE LET time_match == TimeRangeMatch(block_lines[2])
             IN  IF ~time_match.ok THEN acc
                 ELSE LET lrc_time == srt_time_to_lrc(time_match.g1)
                      IN  IF ~lrc_time.some THEN acc
                          ELSE LET text == CleanText(block_lines)
                               IN  IF text # <<>>
                                   THEN Append(acc, lrc_time.val \o text)
                                   ELSE acc

\* the whole loop, lines 42-65
RECURSIVE ProcessBlocks(_, _)
ProcessBlocks(bs, acc) ==
    IF bs = <<>> THEN acc ELSE ProcessBlocks(Tail(bs), ProcessBlock(bs[1], acc))

\* lines 41-65 as a function of content
LrcLines(text) == ProcessBlocks(SplitBlocks(Strip(text)), <<>>)

\* the lines joined, without the final line break
DocumentNoTrailingNewline(ls) == Join(ls, <<"\n">>)

\* "\n".join(lines) + "\n", line 71
Document(ls) == Join(ls, <<"\n">>) \o <<"\n">>

(***************************************************************************)
(* Paths and files.                                                        *)
(***************************************************************************)
\* posixpath.splitext(p)[0]: the extension starts at the last '.' of the last
\* path component, unless only dots come before it in that component
SplitextRoot(p) ==
    LET sepIndex == MaxOf(Positions(p, "/") \cup {0})
        dotIndex == MaxOf(Positions(p, ".") \cup {0})
    IN  IF /\ dotIndex > sepIndex
           /\ \E k \in (sepIndex + 1)..(dotIndex - 1) : p[k] # "."
        THEN SubSeq(p, 1, dotIndex - 1)
        ELSE p

DotLrc == <<".", "l", "r", "c">>

\* an extension appended to the whole path instead
DefaultLrcAppended(p) == p \o DotLrc

\* line 32: os.path.splitext(srt_path)[0] + ".lrc"
DefaultLrcPath(p) == SplitextRoot(p) \o DotLrc

\* a file: its text, whether this process may read and write it, and whether
\* its bytes decode as UTF-8
File(data, readable, writable, utf8) ==
    [kind |-> "file", data |-> data, readable |-> readable, writable |-> writable,
     utf8 |-> utf8]

Directory ==
    [kind |-> "dir", data |-> <<>>, readable |-> TRUE, writable |-> TRUE, utf8 |-> TRUE]

Exists(f, p) == p \in DOMAIN f

\* text mode reads with universal newlines: from d[start] on, each "\r\n" and
\* each lone "\r" becomes "\n"
RECURSIVE ReadTextFrom(_, _)
ReadTextFrom(d, start) ==
    LET crs == {i \in start..Len(d) : d[i] = "\r"}
    IN  IF crs = {} THEN Drop(d, start)
        ELSE LET i == MinOf(crs)
             IN  SubSeq(d, start, i - 1) \o <<"\n">>
                 \o ReadTextFrom(d, IF i < Len(d) /\ d[i + 1] = "\n" THEN i + 2 ELSE i + 1)

ReadText(d) == ReadTextFrom(d, 1)

\* f with path p holding a regular file of the given text
WithFile(f, p, data) ==
    [q \in DOMAIN f \cup {p} |-> IF q = p THEN File(data, TRUE, TRUE, TRUE) ELSE f[q]]

(***************************************************************************)
(* srt_to_lrc(srt_path, lrc_path=None), one action per stretch of code.    *)
(* pc: "start" -> "open_in" -> "read" -> "split" -> "loop" -> "open_out"   *)
(*     -> "write" -> "return" -> "done"; "raised" when an exception leaves *)
(*     the call.                                                           *)
(***************************************************************************)
\* the call ends with exception e
Raise(e) == pc' = "raised" /\ exc' = e

\* lines 31-32: the output path defaults to the input path with extension .lrc
Call ==
    /\ pc = "start"
    /\ lrc_path' = IF lrc_arg.some THEN lrc_arg.val ELSE DefaultLrcPath(srt_path)
    /\ pc' = "open_in"
    /\ UNCHANGED <<fs0, fs, srt_path, lrc_arg, handles, content, blocks, bi, lines, ret,
                   exc>>
    /\ UNCHANGED <<timeVars, dlVars, stemsVars>>

\* an open that lets FileNotFoundError through
OpenInputUncaught ==
    /\ pc = "open_in"
    /\ IF ~Exists(fs, srt_path)
       THEN Raise("FileNotFoundError") /\ UNCHANGED <<handles, ret>>
       ELSE IF fs[srt_path].kind = "dir"
       THEN Raise("IsADirectoryError") /\ UNCHANGED <<handles, ret>>
       ELSE IF ~fs[srt_path].readable
       THEN Raise("PermissionError") /\ UNCHANGED <<handles, ret>>
       ELSE handles' = handles \cup {"in"} /\ pc' = "read" /\ UNCHANGED <<ret, exc>>
    /\ UNCHANGED <<fs0, fs, srt_path, lrc_arg, lrc_path, content, blocks, bi, lines>>
    /\ UNCHANGED <<timeVars, dlVars, stemsVars>>

\* lines 34-35, 37-38: open(srt_path, "r", encoding="utf-8").  Only
\* FileNotFoundError is caught; any other OSError leaves the call.
OpenInput ==
    /\ pc = "open_in"
    /\ IF ~Exists(fs, srt_path)
       THEN ret' = None /\ pc' = "done" /\ UNCHANGED <<handles, exc>>
       ELSE IF fs[srt_path].kind = "dir"
       THEN Raise("IsADirectoryError") /\ UNCHANGED <<handles, ret>>
       ELSE IF ~fs[srt_path].readable
       THEN Raise("PermissionError") /\ UNCHANGED <<handles, ret>>
       ELSE handles' = handles \cup {"in"} /\ pc' = "read" /\ UNCHANGED <<ret, exc>>
    /\ UNCHANGED <<fs0, fs, srt_path, lrc_arg, lrc_path, content, blocks, bi, lines>>
    /\ UNCHANGED <<timeVars, dlVars, stemsVars>>

\* a read that keeps the file open when the bytes do not decode
ReadInputLeaking ==
    /\ pc = "read"
    /\ IF ~fs[srt_path].utf8
       THEN Raise("UnicodeDecodeError") /\ UNCHANGED <<content, handles>>
       ELSE /\ content' = ReadText(fs[srt_path].data)
            /\ handles' = handles \ {"in"}
            /\ pc' = "split"
            /\ UNCHANGED exc
    /\ UNCHANGED <<fs0, fs, srt_path, lrc_arg, lrc_path, blocks, bi, lines, ret>>
    /\ UNCHANGED <<timeVars, dlVars, stemsVars>>

\* line 36 and the end of the with block: f.read(); the handle is closed on
\* every way out.  Bytes that do not decode raise UnicodeDecodeError.
ReadInput ==
    /\ pc = "read"
    /\ handles' = handles \ {"in"}
    /\ IF ~fs[srt_path].utf8
       THEN Raise("UnicodeDecodeError") /\ UNCHANGED content
       ELSE content' = ReadText(fs[srt_path].data) /\ pc' = "split" /\ UNCHANGED exc
    /\ UNCHANGED <<fs0, fs, srt_path, lrc_arg, lrc_path, blocks, bi, lines, ret>>
    /\ UNCHANGED <<timeVars, dlVars, stemsVars>>

\* lines 41-42
SplitContent ==
    /\ pc = "split"
    /\ blocks' = SplitBlocks(Strip(content))
    /\ lines' = <<>>
    /\ bi' = 1
    /\ pc' = "loop"
    /\ UNCHANGED <<fs0, fs, srt_path, lrc_arg, lrc_path, handles, content, ret, exc>>
    /\ UNCHANGED <<timeVars, dlVars, stemsVars>>

\* lines 44-65: one pass of the for loop
LoopStep ==
    /\ pc = "loop"
    /\ bi <= Len(blocks)
    /\ lines' = ProcessBlock(blocks[bi], lines)
    /\ bi' = bi + 1
    /\ UNCHANGED <<fs0, fs, srt_path, lrc_arg, lrc_path, pc, handles, content, blocks,
                   ret, exc>>
    /\ UNCHANGED <<timeVars, dlVars, stemsVars>>

\* an end of loop that goes on to write whatever was collected
LoopExitAlwaysWrites ==
    /\ pc = "loop"
    /\ bi > Len(blocks)
    /\ pc' = "open_out"
    /\ UNCHANGED ret
    /\ UNCHANGED <<fs0, fs, srt_path, lrc_arg, lrc_path, handles, content, blocks, bi,
                   lines, exc>>
    /\ UNCHANGED <<timeVars, dlVars, stemsVars>>

\* lines 67-68: the loop is over; nothing collected returns None
LoopExit ==
    /\ pc = "loop"
    /\ bi > Len(blocks)
    /\ IF lines = <<>>
       THEN ret' = None /\ pc' = "done"
       ELSE pc' = "open_out" /\ UNCHANGED ret
    /\ UNCHANGED <<fs0, fs, srt_path, lrc_arg, lrc_path, handles, content, blocks, bi,
                   lines, exc>>
    /\ UNCHANGED <<timeVars, dlVars, stemsVars>>

\* line 70: open(lrc_path, "w", encoding="utf-8") creates the file or cuts it
\* to nothing; no exception is caught here
OpenOutput ==
    /\ pc = "open_out"
    /\ IF Exists(fs, lrc_path) /\ fs[lrc_path].kind = "dir"
       THEN Raise("IsADirectoryError") /\ UNCHANGED <<fs, handles>>
       ELSE IF Exists(fs, lrc_path) /\ ~fs[lrc_path].writable
       THEN Raise("PermissionError") /\ UNCHANGED <<fs, handles>>
       ELSE /\ fs' = IF Exists(fs, lrc_path)
                     THEN [fs EXCEPT ![lrc_path].data = <<>>, ![lrc_path].utf8 = TRUE]
                     ELSE WithFile(fs, lrc_path, <<>>)
            /\ handles' = handles \cup {"out"}
            /\ pc' = "write"
            /\ UNCHANGED exc
    /\ UNCHANGED <<fs0, srt_path, lrc_arg, lrc_path, content, blocks, bi, lines, ret>>
    /\ UNCHANGED <<timeVars, dlVars, stemsVars>>

\* line 71 and the end of the with block.  On POSIX a "\n" is written as it is.
\* The text is buffered and reaches the disk when the with block closes the
\* file; when the disk refuses it (no space left), OSError leaves the call and
\* the file stays as the open left it.  The handle is closed either way.
WriteOutput ==
    /\ pc = "write"
    /\ handles' = handles \ {"out"}
    /\ \E disk_ok \in BOOLEAN :
         IF disk_ok
         THEN /\ fs' = [fs EXCEPT ![lrc_path].data = Document(lines)]
              /\ pc' = "return"
              /\ UNCHANGED exc
         ELSE Raise("OSError") /\ UNCHANGED fs
    /\ UNCHANGED <<fs0, srt_path, lrc_arg, lrc_path, content, blocks, bi, lines, ret>>
    /\ UNCHANGED <<timeVars, dlVars, stemsVars>>

\* line 73
Return ==
    /\ pc = "return"
    /\ ret' = Some(lrc_path)
    /\ pc' = "done"
    /\ UNCHANGED <<fs0, fs, srt_path, lrc_arg, lrc_path, handles, content, blocks, bi,
                   lines, exc>>
    /\ UNCHANGED <<timeVars, dlVars, stemsVars>>

(***************************************************************************)
(* The inputs of Spec.                                                     *)
(***************************************************************************)
\* '1\n00:01:23,456 --> 00:01:25,789\n<i>Hello</i> world'
BlockHello ==
    <<"1", "\n", "0", "0", ":", "0", "1", ":", "2", "3", ",", "4", "5", "6", " ", "-",
      "-", ">", " ", "0", "0", ":", "0", "1", ":", "2", "5", ",", "7", "8", "9", "\n",
      "<", "i", ">", "H", "e", "l", "l", "o", "<", "/", "i", ">", " ", "w", "o", "r",
      "l", "d">>

\* '2\n1:02:3.45-->1:02:04.000\nla\n la ': an hour, '.' for ',', no space around
\* the arrow, two text lines
BlockTwoTextLines ==
    <<"2", "\n", "1", ":", "0", "2", ":", "3", ".", "4", "5", "-", "-", ">", "1", ":",
      "0", "2", ":", "0", "4", ".", "0", "0", "0", "\n", "l", "a", "\n", " ", "l", "a",
      " ">>

\* '3\n0:0:100,4567 --> 0:0:0,0 x\n<<b>>a<>c<d': three digits of seconds, four of
\* fraction, text after the time range, angle brackets that are not tags
BlockWide ==
    <<"3", "\n", "0", ":", "0", ":", "1", "0", "0", ",", "4", "5", "6", "7", " ", "-",
      "-", ">", " ", "0", ":", "0", ":", "0", ",", "0", " ", "x", "\n", "<", "<", "b",
      ">", ">", "a", "<", ">", "c", "<", "d">>

\* '4\n00:00:05,000 --> 00:00:06,000\n<b></b>': a valid block whose text is tags only
BlockTagsOnly ==
    <<"4", "\n", "0", "0", ":", "0", "0", ":", "0", "5", ",", "0", "0", "0", " ", "-",
      "-", ">", " ", "0", "0", ":", "0", "0", ":", "0", "6", ",", "0", "0", "0", "\n",
      "<", "b", ">", "<", "/", "b", ">">>

\* '5\n00:00:07,000 --> 00:00:08,000': malformed, the text line is missing
BlockNoText ==
    <<"5", "\n", "0", "0", ":", "0", "0", ":", "0", "7", ",", "0", "0", "0", " ", "-",
      "-", ">", " ", "0", "0", ":", "0", "0", ":", "0", "8", ",", "0", "0", "0">>

\* '6\n 00:00:09,000 --> 00:00:10,000\ntext': malformed, the second line does not
\* start with a timestamp
BlockBadTime ==
    <<"6", "\n", " ", "0", "0", ":", "0", "0", ":", "0", "9", ",", "0", "0", "0", " ",
      "-", "-", ">", " ", "0", "0", ":", "0", "0", ":", "1", "0", ",", "0", "0", "0",
      "\n", "t", "e", "x", "t">>

\* 'junk': malformed, one line
BlockOneLine == <<"j", "u", "n", "k">>

MalformedSamples == {BlockNoText, BlockBadTime, BlockOneLine}

BlockSamples ==
    {BlockHello, BlockTwoTextLines, BlockWide, BlockTagsOnly} \cup MalformedSamples

\* what stands between two blocks of a document: an empty line; CRLF line ends
\* around a line of blanks and one more empty line; a single line break (which
\* does not separate)
Separators ==
    { <<"\n", "\n">>,
      <<"\r", "\n", " ", "\t", "\r", "\n", "\n">>,
      <<"\n">> }

\* what stands before and after the blocks of a document
Margins == { <<<<>>, <<>>>>, << <<"\n", " ">>, <<" ", "\n", "\n">> >> }

MaxBlocks == 2

\* the documents of 1..n sample blocks
RECURSIVE DocBodies(_)
DocBodies(n) ==
    IF n = 0 THEN {}
    ELSE LET shorter == DocBodies(n - 1)
         IN  BlockSamples \cup shorter
             \cup {d \o sep \o b : d \in shorter, sep \in Separators, b \in BlockSamples}

\* the specification's scenario: two valid blocks with a malformed one (its text
\* line is missing) between them
ScenarioDoc ==
    BlockHello \o <<"\n", "\n">> \o BlockNoText \o <<"\n", "\n">> \o BlockTwoTextLines

\* two blocks with nothing but a line of a blank and a tab between them
SpacedDoc == BlockHello \o <<"\n", " ", "\t", "\n">> \o BlockTwoTextLines

Docs ==
    {<<>>, ScenarioDoc, SpacedDoc}
    \cup {mg[1] \o d \o mg[2] : mg \in Margins, d \in DocBodies(MaxBlocks)}

\* '7\n0:00:01,000 --> 0:00:02,000\n': a block up to its text
TextBlockHead ==
    <<"7", "\n", "0", ":", "0", "0", ":", "0", "1", ",", "0", "0", "0", " ", "-", "-",
      ">", " ", "0", ":", "0", "0", ":", "0", "2", ",", "0", "0", "0", "\n">>

MaxTextLen == 5

TextChars == {"<", ">", "a", " "}

\* every text over TextChars of up to n characters
RECURSIVE Texts(_)
Texts(n) ==
    IF n = 0 THEN {<<>>}
    ELSE LET shorter == Texts(n - 1)
         IN  shorter \cup {Append(t, c) : t \in shorter, c \in TextChars}

\* the few documents the file-system cases are run on: empty, no output line,
\* one output line, two
SmallDocs ==
    {<<>>, BlockNoText, BlockHello, BlockHello \o <<"\n", "\n">> \o BlockTwoTextLines}

PathASrt == <<"a", ".", "s", "r", "t">>

PathNoExt == <<"a">>

PathDotSrt == <<".", "s", "r", "t">>

PathDirDot == <<"d", ".", "x", "/", "a">>

PathTwoDots == <<"a", ".", "b", ".", "s", "r", "t">>

PathOut == <<"o", ".", "t", "x", "t">>

InputPaths == {PathASrt, PathNoExt, PathDotSrt, PathDirDot, PathTwoDots}

\* the paths srt_to_lrc may write to for these inputs and the other arguments
OutputPaths ==
    {p \o DotLrc : p \in {<<"a">>, PathDotSrt, PathDirDot, <<"a", ".", "b">>}}
    \cup {PathOut}

OldData == <<"o", "l", "d", "\n">>

\* what may be at the input path: nothing (None here), a directory, a file
\* that may not be read, a file that is not UTF-8, a readable document
InputNodes ==
    {None, Some(Directory), Some(File(BlockHello, FALSE, TRUE, TRUE)),
     Some(File(BlockHello, TRUE, TRUE, FALSE))}
    \cup {Some(File(d, TRUE, TRUE, TRUE)) : d \in SmallDocs}

\* what may be at the other paths before the call
OtherNodes ==
    {None, Some(Directory), Some(File(OldData, TRUE, FALSE, TRUE)),
     Some(File(OldData, TRUE, TRUE, TRUE))}

\* the file system with node i at path p and node o at every path of others
MakeFs(p, i, others, o) ==
    [q \in (IF i.some THEN {p} ELSE {}) \cup (IF o.some THEN others \ {p} ELSE {}) |->
        IF q = p THEN i.val ELSE o.val]

\* the srt_time_to_lrc side at rest
TimeIdle ==
    /\ time_parts = Parts(<<>>, <<>>, <<>>, <<>>, <<>>, <<>>, <<>>)
    /\ srt_time = <<>>
    /\ time_called = TRUE
    /\ time_ret = None

\* every sample document at a.srt, nothing else on disk, lrc_path left out
InitDocuments ==
    /\ srt_path = PathASrt
    /\ lrc_arg = None
    /\ \E d \in Docs : fs = MakeFs(PathASrt, Some(File(d, TRUE, TRUE, TRUE)), {}, None)

\* one block at a.srt whose text is any text of angle brackets, letters and
\* blanks, nothing else on disk, lrc_path left out
InitTexts ==
    /\ srt_path = PathASrt
    /\ lrc_arg = None
    /\ \E t \in Texts(MaxTextLen) :
         fs = MakeFs(PathASrt, Some(File(TextBlockHead \o t, TRUE, TRUE, TRUE)), {}, None)

\* every input path, lrc_path left out, given, or given as the input path;
\* every kind of node at the input path and at the possible output paths
InitFiles ==
    /\ srt_path \in InputPaths
    /\ lrc_arg \in {None, Some(PathOut), Some(srt_path)}
    /\ \E i \in InputNodes, o \in OtherNodes : fs = MakeFs(srt_path, i, OutputPaths, o)

Init ==
    /\ TimeIdle
    /\ DownloadIdle
    /\ StemsIdle
    /\ InitDocuments \/ InitTexts \/ InitFiles
    /\ fs0 = fs
    /\ lrc_path = <<>>
    /\ pc = "start"
    /\ handles = {}
    /\ content = <<>>
    /\ blocks = <<>>
    /\ bi = 0
    /\ lines = <<>>
    /\ ret = None
    /\ exc = ""

Next ==
    \/ Call
    \/ OpenInput
    \/ ReadInput
    \/ SplitContent
    \/ LoopStep
    \/ LoopExit
    \/ OpenOutput
    \/ WriteOutput
    \/ Return

Spec == Init /\ [][Next]_vars

(***************************************************************************)
(* Properties of srt_to_lrc (under Spec).                                  *)
(***************************************************************************)
\* the for loop has run to its end
LoopOver == bi >= 1 /\ bi > Len(blocks) /\ pc # "loop"

BlockLines(b) == SplitLines(Strip(b))

\* a valid block: at least 3 lines, the second matching the time-range pattern
IsValidBlock(b) == Len(BlockLines(b)) >= 3 /\ TimeRangeMatch(BlockLines(b)[2]).ok

\* the start timestamp of a valid block, as its four digit fields
StartFields(b) == TimeMatchAt(BlockLines(b)[2], 1)

\* the bracketed timestamp of a valid block
BlockStamp(b) == srt_time_to_lrc(TimeRangeMatch(BlockLines(b)[2]).g1).val

\* the cleaned text of a block
BlockText(b) == Strip(StripTags(Join(Drop(BlockLines(b), 3), <<" ">>)))

\* a block that yields an output line
Emits(b) == IsValidBlock(b) /\ BlockText(b) # <<>>

\* the blocks among the first n of the input that yield an output line, in order
EmittingBlocks(n) == SelectSeq(SubSeq(blocks, 1, n), Emits)

\* the file the call returned the path of
Written == fs[ret.val].data

\* l is '[' two or more digits ':' two digits '.' two digits ']' and then a
\* non-empty text that does not start with whitespace
IsExactLrcLine(l) ==
    /\ Positions(l, ":") # {}
    /\ LET a == MinOf(Positions(l, ":"))
       IN  /\ l[1] = "["
           /\ a >= 4
           /\ AllDigits(SubSeq(l, 2, a - 1))
           /\ Len(l) >= a + 7
           /\ IsDigit(l[a + 1]) /\ IsDigit(l[a + 2])
           /\ l[a + 3] = "."
           /\ IsDigit(l[a + 4]) /\ IsDigit(l[a + 5])
           /\ l[a + 6] = "]"
           /\ ~IsSpace(l[a + 7])

LineTwoTextLines ==
    <<"[", "6", "2", ":", "0", "3", ".", "0", "4", "]", "l", "a", " ", " ", "l", "a">>

\* '[01:23.45]Hello world'
LineHello ==
    <<"[", "0", "1", ":", "2", "3", ".", "4", "5", "]", "H", "e", "l", "l", "o", " ",
      "w", "o", "r", "l", "d">>

C3_OneLinePerEmittingBlock ==
    (pc = "done" /\ ret.some) =>
        LET em     == EmittingBlocks(Len(blocks))
            pieces == SplitLines(Written)
        IN  /\ Len(em) >= 1
            /\ Cardinality(Positions(Written, "\n")) = Len(em)
            /\ Len(pieces) = Len(em) + 1
            /\ pieces[Len(em) + 1] = <<>>
            /\ \A k \in 1..Len(em) : pieces[k] = BlockStamp(em[k]) \o BlockText(em[k])

\* C3 witness: the scenario document (valid, malformed, valid) gave two lines
C3_Witness ==
    /\ pc = "done" /\ ret.some
    /\ fs0[srt_path].data = ScenarioDoc
    /\ Written = LineHello \o <<"\n">> \o LineTwoTextLines \o <<"\n">>

\* bs with block b put after its first i blocks
InsertAt(bs, i, b) == SubSeq(bs, 1, i) \o <<b>> \o SubSeq(bs, i + 1, Len(bs))

\* bs without its j-th block
RemoveAt(bs, j) == SubSeq(bs, 1, j - 1) \o SubSeq(bs, j + 1, Len(bs))

\* the document of the given blocks, an empty line between neighbours
DocumentOf(bs) == Join(bs, <<"\n", "\n">>)

\* C4: a malformed block is skipped and the loop runs to its end; the output
\* lines of a document do not change when a malformed block is put in at any block
\* boundary, or when one of its malformed blocks is taken out.
C4_MalformedBlocksDoNotMatter ==
    (LoopOver /\ pc \in {"done", "raised"}) =>
        /\ \A i \in 0..Len(blocks) : \A mb \in MalformedSamples :
             /\ ~IsValidBlock(mb)
             /\ LrcLines(DocumentOf(InsertAt(blocks, i, mb))) = lines
        /\ \A j \in 1..Len(blocks) :
             ~IsValidBlock(blocks[j]) => LrcLines(DocumentOf(RemoveAt(blocks, j))) = lines

\* C4 witness: a document with a malformed block before a valid one was
\* converted, and the valid block's line is there
C4_Witness ==
    /\ pc = "done"
    /\ blocks = <<BlockBadTime, BlockHello>>
    /\ lines = <<LineHello>>

\* C5: when no block of the input yields an output line, the call returns None
\* and the file system is as it was before the call.
C5_NoOutputNoFile ==
    (LoopOver /\ \A k \in 1..Len(blocks) : ~Emits(blocks[k])) =>
        /\ pc = "done"
        /\ ret = None
        /\ fs = fs0

\* C5 witness: the only block was valid with tags for text; None was returned
\* and no file is at a.lrc
C5_Witness ==
    /\ pc = "done" /\ ret = None
    /\ blocks = <<BlockTagsOnly>>
    /\ srt_path = PathASrt
    /\ ~Exists(fs, <<"a">> \o DotLrc)

\* C6: when nothing is at the input path the call returns None, raises nothing
\* and leaves the file system as it was.
C6_MissingInputReturnsNone ==
    ~Exists(fs0, srt_path) =>
        /\ pc \in {"start", "open_in", "done"}
        /\ exc = ""
        /\ ret = None
        /\ fs = fs0

\* C6 witness: the call ended with nothing at a.srt and the old file at a.lrc
\* as it was
C6_Witness ==
    /\ pc = "done"
    /\ srt_path = PathASrt
    /\ ~Exists(fs0, srt_path)
    /\ Exists(fs, <<"a">> \o DotLrc)
    /\ fs[<<"a">> \o DotLrc].data = OldData

\* C7: whatever the input read and the output write run into, the call ends by
\* returning the output path or None: no exception leaves it.
C7_NoExceptionLeavesTheCall ==
    /\ pc # "raised"
    /\ pc = "done" => ret \in {None, Some(lrc_path)}

\* t holds no '<', one or more characters other than '>', '>'
NoTagLeft(t) ==
    ~\E i, j \in 1..Len(t) :
        /\ i + 2 <= j
        /\ t[i] = "<"
        /\ t[j] = ">"
        /\ \A k \in (i + 1)..(j - 1) : t[k] # ">"

\* what follows the first ']' of an output line
TextOfLine(l) == Drop(l, MinOf(Positions(l, "]")) + 1)

\* C9: the text of every line collected is the block's lines from the third on,
\* joined by single spaces, without tags and trimmed; no tag is left in it, and
\* cleaning it again changes nothing.
C9_CleanTextHasNoTags ==
    bi >= 1 =>
        LET em == EmittingBlocks(bi - 1)
        IN  /\ Len(lines) = Len(em)
            /\ \A k \in 1..Len(em) :
                 LET t == TextOfLine(lines[k])
                 IN  /\ t = BlockText(em[k])
                     /\ NoTagLeft(t)
                     /\ Strip(StripTags(t)) = t
                     /\ t # <<>> /\ ~IsSpace(t[1]) /\ ~IsSpace(t[Len(t)])
                     /\ em[k] = BlockHello =>
                          t = <<"H", "e", "l", "l", "o", " ", "w", "o", "r", "l", "d">>
                     /\ em[k] = BlockTwoTextLines => t = <<"l", "a", " ", " ", "l", "a">>

\* C9 witness: '<i>Hello</i> world' gave 'Hello world', and the text with angle
\* brackets that are not tags gave '>a<>c<d'
C9_Witness ==
    /\ pc = "done"
    /\ blocks = <<BlockHello, BlockWide>>
    /\ Len(lines) = 2
    /\ TextOfLine(lines[1]) = <<"H", "e", "l", "l", "o", " ", "w", "o", "r", "l", "d">>
    /\ TextOfLine(lines[2]) = <<">", "a", "<", ">", "c", "<", "d">>

\* the input paths with the extension replaced by .lrc, or .lrc appended when
\* there is none: a.srt -> a.lrc, a -> a.lrc, .srt -> .srt.lrc (a leading dot
\* starts no extension), d.x/a -> d.x/a.lrc, a.b.srt -> a.b.lrc
ExpectedDefault(p) ==
    CASE p = PathASrt    -> <<"a", ".", "l", "r", "c">>
      [] p = PathNoExt   -> <<"a", ".", "l", "r", "c">>
      [] p = PathDotSrt  -> <<".", "s", "r", "t", ".", "l", "r", "c">>
      [] p = PathDirDot  -> <<"d", ".", "x", "/", "a", ".", "l", "r", "c">>
      [] p = PathTwoDots -> <<"a", ".", "b", ".", "l", "r", "c">>

\* each line followed by a line break
RECURSIVE Terminated(_)
Terminated(ls) == IF ls = <<>> THEN <<>> ELSE ls[1] \o <<"\n">> \o Terminated(Tail(ls))

\* C10: on success the value returned is the path written: lrc_path when it was
\* given, otherwise the input path with its extension replaced by .lrc; the file
\* there holds the whole output document and nothing of what it held before, and
\* no other path was touched.
C10_ReturnsThePathWritten ==
    (pc = "done" /\ ret.some) =>
        /\ ret.val = IF lrc_arg.some THEN lrc_arg.val ELSE ExpectedDefault(srt_path)
        /\ Exists(fs, ret.val)
        /\ fs[ret.val].kind = "file"
        /\ fs[ret.val].data = Terminated(lines)
        /\ lines # <<>>
        /\ DOMAIN fs = DOMAIN fs0 \cup {ret.val}
        /\ \A q \in DOMAIN fs0 \ {ret.val} : fs[q] = fs0[q]

\* C10 witness: a.b.srt was converted with lrc_path left out; a.b.lrc, which
\* held other text, was returned and holds the document
C10_Witness ==
    /\ pc = "done"
    /\ srt_path = PathTwoDots
    /\ ~lrc_arg.some
    /\ ret = Some(<<"a", ".", "b", ".", "l", "r", "c">>)
    /\ fs0[ret.val].data = OldData
    /\ fs[ret.val].data = LineHello \o <<"\n">>

(***************************************************************************)
(* Block splitting (under Spec).                                           *)
(***************************************************************************)
\* the lines of L that are empty
EmptyLines(L) == {k \in 1..Len(L) : L[k] = <<>>}

\* the lines of L that are empty or hold whitespace only
BlankLines(L) == {k \in 1..Len(L) : \A q \in 1..Len(L[k]) : IsSpace(L[k][q])}

\* the lines of L outside seps, grouped into the maximal runs of neighbours,
\* each run joined by single line breaks
LineGroups(L, seps) ==
    LET keep    == (1..Len(L)) \ seps
        first   == Sorted({k \in keep : k - 1 \notin keep})
        last(a) == MaxOf({e \in keep : e >= a /\ \A q \in a..e : q \in keep})
    IN  [i \in 1..Len(first) |-> Join(SubSeq(L, first[i], last(first[i])), <<"\n">>)]

\* the split has just been made, of a document that is not all whitespace
JustSplit == pc = "loop" /\ bi = 1 /\ Strip(content) # <<>>

\* C11 as claimed: the trimmed document is cut into blocks exactly at the runs of
\* two or more line breaks with nothing between them, so that two lines are in
\* different blocks if and only if an empty line stands between them; a line of
\* spaces or tabs only separates nothing and stays in its block.
C11_CutOnlyAtEmptyLines ==
    JustSplit =>
        LET L == SplitLines(Strip(content))
        IN  blocks = LineGroups(L, EmptyLines(L))

\* C11 as amended: the trimmed document is cut into blocks at every line break
\* that is followed, after any whitespace, by another line break: two lines are
\* in different blocks if and only if a line that is empty or holds whitespace
\* only stands between them; such lines belong to no block, and lines with a
\* single line break between them stay in one block.
C11_CutAtBlankLines ==
    JustSplit =>
        LET L == SplitLines(Strip(content))
        IN  /\ blocks = LineGroups(L, BlankLines(L))
            /\ \A k \in 1..Len(blocks) : BlankLines(SplitLines(blocks[k])) = {}

\* C11 witness: the document whose two blocks have only a line of a blank and a
\* tab between them was cut in two, each block keeping its three or four lines
C11_Witness ==
    /\ JustSplit
    /\ fs0[srt_path].data = SpacedDoc
    /\ Len(blocks) = 2
    /\ blocks[1] = BlockHello
    /\ Len(SplitLines(blocks[2])) = 4

(***************************************************************************)
(* File handles (under Spec).                                              *)
(***************************************************************************)
\* the call has ended: it returned or an exception left it
CallEnded == pc \in {"done", "raised"}

\* C12: when a call of srt_to_lrc has ended, by a return of the path, by a
\* return of None or by an exception of the read or of the write, it holds no
\* open file handle; and it never holds two: the input handle is open only
\* between the open and the end of the read, the output handle only between
\* the open and the end of the write, and the input was closed before.
C12_HandlesReleased ==
    /\ CallEnded => handles = {}
    /\ Cardinality(handles) <= 1
    /\ "in" \in handles <=> pc = "read"
    /\ "out" \in handles <=> pc = "write"

\* C12 witness: the write failed after the read had succeeded, the exception
\* left the call, and no handle is open
C12_Witness ==
    /\ pc = "raised"
    /\ exc = "OSError"
    /\ content # <<>>
    /\ Exists(fs, lrc_path)
    /\ handles = {}

(***************************************************************************)
(* download.py and app.py: the checks on the URL.                          *)
(***************************************************************************)
MAX_URL_LENGTH == 2048

\* the three hosts of ALLOWED_URL
AllowedHosts ==
    {<<"y", "o", "u", "t", "u", "b", "e", ".", "c", "o", "m">>,
     <<"y", "o", "u", "t", "u", ".", "b", "e">>,
     <<"m", "u", "s", "i", "c", ".", "y", "o", "u", "t", "u", "b", "e", ".", "c", "o", "m">>}

\* where the text after 'http://' or 'https://' starts in u, 0 when u starts
\* with neither: ^https?://
AfterScheme(u) ==
    IF HasAt(u, 1, <<"h", "t", "t", "p", ":", "/", "/">>) THEN 8
    ELSE IF HasAt(u, 1, <<"h", "t", "t", "p", "s", ":", "/", "/">>) THEN 9
    ELSE 0

\* where the text after the host starts: (www\.)?(youtube\.com|...) from u[i].
\* No host starts with 'www.' and none is the start of another, so at most one
\* way of matching exists.
AfterHost(u, i) ==
    LET j    == IF HasAt(u, i, <<"w", "w", "w", ".">>) THEN i + 4 ELSE i
        ends == {j + Len(h) : h \in {g \in AllowedHosts : HasAt(u, j, g)}}
    IN  IF i = 0 \/ ends = {} THEN 0 ELSE MinOf(ends)

\* /.+$ from u[i]: a '/', then one or more characters other than a line break,
\* up to the end of u or to a line break that is the last character of u
PathMatches(u, i) ==
    /\ i >= 1 /\ i <= Len(u) /\ u[i] = "/"
    /\ \E k \in {Len(u), Len(u) - 1} :
         /\ k > i
         /\ \A q \in (i + 1)..k : u[q] # "\n"
         /\ k = Len(u) \/ u[Len(u)] = "\n"

\* a pattern that does not look at what follows the host
HostOnlyMatch(u) == AfterHost(u, AfterScheme(u)) > 0

\* ALLOWED_URL.match(u)
ALLOWED_URL(u) == PathMatches(u, AfterHost(u, AfterScheme(u)))

\* the outcome of a call that may end the process: the value returned, or the
\* exit status with what was printed before
Returned(v) == [exits |-> FALSE, status |-> 0, printed |-> <<>>, val |-> v]

Exits(status, printed) == [exits |-> TRUE, status |-> status, printed |-> printed, val |-> <<>>]

\* download.py lines 43-52
validate_url(url) ==
    IF Len(url) > MAX_URL_LENGTH THEN Exits(1, <<"URL is too long.">>)
    ELSE IF ~ALLOWED_URL(url)
    THEN Exits(1, <<"Invalid URL. Only YouTube links are accepted.">>)
    ELSE Returned(url)

(***************************************************************************)
(* download.py and app.py: the trim values.                                *)
(*                                                                         *)
(* A float is nan, an infinity, or a finite decimal: a sign, an integer    *)
(* part and the digits after the point without closing zeros.  The texts   *)
(* the model converts are a sign, digits and at most one point, or a       *)
(* spelling of nan or infinity; exponents and digit separators, which      *)
(* float() also takes, are not among them.                                 *)
(***************************************************************************)
NaN == [kind |-> "nan", neg |-> FALSE, int |-> 0, frac |-> <<>>]

Inf(neg) == [kind |-> "inf", neg |-> neg, int |-> 0, frac |-> <<>>]

Num(neg, int, frac) == [kind |-> "num", neg |-> neg, int |-> int, frac |-> frac]

\* the failure of a conversion
ValueError == [ok |-> FALSE, val |-> NaN]

Converted(v) == [ok |-> TRUE, val |-> v]

\* str.lower(), for the letters of 'nan' and 'infinity'
LowerChar(c) ==
    CASE c = "A" -> "a" [] c = "F" -> "f" [] c = "I" -> "i" [] c = "N" -> "n"
      [] c = "T" -> "t" [] c = "Y" -> "y" [] OTHER -> c

Lower(s) == [i \in 1..Len(s) |-> LowerChar(s[i])]

\* s without its closing zeros
RECURSIVE TrimZeros(_)
TrimZeros(s) ==
    IF s # <<>> /\ s[Len(s)] = "0" THEN TrimZeros(SubSeq(s, 1, Len(s) - 1)) ELSE s

\* float(text): whitespace around the number is ignored
ParseFloat(text) ==
    LET t      == Strip(text)
        signed == t # <<>> /\ t[1] \in {"+", "-"}
        neg    == t # <<>> /\ t[1] = "-"
        body   == IF signed THEN Tail(t) ELSE t
        n1     == DigitRun(body, 1)
        dot    == n1 < Len(body) /\ body[n1 + 1] = "."
        n2     == IF dot THEN DigitRun(body, n1 + 2) ELSE 0
        end    == n1 + (IF dot THEN 1 + n2 ELSE 0)
    IN  IF Lower(body) = <<"n", "a", "n">> THEN Converted(NaN)
        ELSE IF Lower(body) \in {<<"i", "n", "f">>, <<"i", "n", "f", "i", "n", "i", "t", "y">>} THEN Converted(Inf(neg))
        ELSE IF end = Len(body) /\ n1 + n2 > 0
        THEN Converted(Num(neg, ParseInt(SubSeq(body, 1, n1)),
                           TrimZeros(SubSeq(body, n1 + 2, n1 + 1 + n2))))
        ELSE ValueError

\* str(x) of a float: the shortest decimal that reads back as x, which for the
\* decimals of the model is the decimal itself, with '.0' when it is whole
FloatStr(x) ==
    IF x.kind = "nan" THEN <<"n", "a", "n">>
    ELSE IF x.kind = "inf" THEN (IF x.neg THEN <<"-", "i", "n", "f">> ELSE <<"i", "n", "f">>)
    ELSE (IF x.neg THEN <<"-">> ELSE <<>>) \o IntToStr(x.int) \o <<".">>
         \o (IF x.frac = <<>> THEN <<"0">> ELSE x.frac)

\* 10 to the power k
RECURSIVE Pow10(_)
Pow10(k) == IF k = 0 THEN 1 ELSE 10 * Pow10(k - 1)

\* a finite float times 10^k, for k at least the number of its decimals
Scaled(x, k) ==
    LET mag == x.int * Pow10(k) + ParseInt(x.frac) * Pow10(k - Len(x.frac))
    IN  IF x.neg THEN 0 - mag ELSE mag

\* x < y; every comparison with nan is false
FloatLess(x, y) ==
    IF x.kind = "nan" \/ y.kind = "nan" THEN FALSE
    ELSE IF x.kind = "inf" THEN x.neg /\ ~(y.kind = "inf" /\ y.neg)
    ELSE IF y.kind = "inf" THEN ~y.neg
    ELSE LET k == IF Len(x.frac) > Len(y.frac) THEN Len(x.frac) ELSE Len(y.frac)
         IN  Scaled(x, k) < Scaled(y, k)

\* x >= y
FloatGe(x, y) ==
    IF x.kind = "nan" \/ y.kind = "nan" THEN FALSE
    ELSE ~FloatLess(x, y)

Zero == Num(FALSE, 0, <<>>)

\* download.py line 68 and app.py lines 302, 311: 'if val < 0: raise ValueError'
PassesSignCheck(val) == ~FloatLess(val, Zero)

\* download.py lines 64-73: value is a float already (argparse converted it)
validate_seconds(value) ==
    IF PassesSignCheck(value) THEN Returned(value)
    ELSE Exits(1, <<"Invalid value: must be a non-negative number.">>)

(***************************************************************************)
(* download.py: the output directory.                                      *)
(*                                                                         *)
(* The disk of the model: the working directory /w, a directory /data, a   *)
(* symbolic link /w/link to /data, and a regular file /w/blocked.          *)
(***************************************************************************)
\* s.split(c): cut at every c, empty pieces kept
SplitOn(s, c) ==
    LET at == Sorted(Positions(s, c))
        n  == Len(at)
    IN  [k \in 1..(n + 1) |->
            SubSeq(s, IF k = 1 THEN 1 ELSE at[k - 1] + 1,
                      IF k = n + 1 THEN Len(s) ELSE at[k] - 1)]

\* whether t occurs in s: 't in s'
Contains(s, t) == \E i \in 1..(Len(s) - Len(t) + 1) : HasAt(s, i, t)

\* os.getcwd(), as path components
Cwd == <<<<"w">>>>

\* the symbolic links: where each is (as components) and where it points
LinkAt == <<<<"w">>, <<"l", "i", "n", "k">>>>

LinkTarget == <<<<"d", "a", "t", "a">>>>

\* the regular files
RegularFiles == {<<"/", "w", "/", "b", "l", "o", "c", "k", "e", "d">>}

\* the directories before the program runs
InitialDirs == {<<"/">>, <<"/", "w">>, <<"/", "d", "a", "t", "a">>}

\* the components of a path that name something: not '' and not '.'
IsName(c) == c # <<>> /\ c # <<".">>

\* the walk of realpath: at is where the walk stands (components, links
\* resolved), comps is what is left of the path
RECURSIVE Walk(_, _)
Walk(at, comps) ==
    IF comps = <<>> THEN at
    ELSE IF comps[1] = <<".", ".">>
    THEN Walk(IF at = <<>> THEN at ELSE SubSeq(at, 1, Len(at) - 1), Tail(comps))
    ELSE IF Append(at, comps[1]) = LinkAt THEN Walk(LinkTarget, Tail(comps))
    ELSE Walk(Append(at, comps[1]), Tail(comps))

\* '/' and the components joined by '/'
FromComponents(cs) == <<"/">> \o Join(cs, <<"/">>)

\* os.path.realpath(path): absolute, without '.', '..' and symbolic links
\* (names, the components that name something, is bound once for the walk)
realpath(path) ==
    LET start == IF path # <<>> /\ path[1] = "/" THEN <<>> ELSE Cwd
    IN  CHOOSE resolved \in {FromComponents(Walk(start, names)) :
                                names \in {SelectSeq(SplitOn(path, "/"), IsName)}} : TRUE

\* a check that hands back the path as it was given
sanitize_path_unresolved(path) ==
    IF Contains(path, <<".", ".">>)
    THEN Exits(1, <<"Invalid output path">>)
    ELSE Returned(path)

\* download.py lines 55-61
sanitize_path(path) ==
    LET resolved == realpath(path)
    IN  IF Contains(path, <<".", ".">>)
        THEN Exits(1, <<"Invalid output path">>)
        ELSE Returned(resolved)

\* the path and the directories above it, as absolute paths
Ancestors(p) ==
    LET cs == SelectSeq(SplitOn(p, "/"), IsName)
    IN  {FromComponents(SubSeq(cs, 1, k)) : k \in 0..Len(cs)}

\* whether os.makedirs(p, exist_ok=True) fails: a regular file stands at the
\* place p names or above it (the system follows the links of p)
MakedirsFails(p) == \E resolved \in {realpath(p)} : Ancestors(resolved) \cap RegularFiles # {}

\* the directories after os.makedirs(p, exist_ok=True) went through: the place
\* p names and whatever was missing above it
AfterMakedirs(ds, p) == ds \cup UNION {Ancestors(resolved) : resolved \in {realpath(p)}}

(***************************************************************************)
(* download.py and app.py: the post-processor arguments.                   *)
(*                                                                         *)
(* opts["postprocessor_args"] is a record: whether the key is in opts,     *)
(* which of 'ffmpeg_i1' and 'ffmpeg_o' it holds, and their lists.  start   *)
(* and end are None or Some(float).                                        *)
(***************************************************************************)
NoPostprocessorArgs ==
    [present |-> FALSE, keys |-> {}, ffmpeg_i1 |-> <<>>, ffmpeg_o |-> <<>>]

\* ["-af", "loudnorm=I=-14:TP=-1:LRA=11"]
norm_args == <<<<"-", "a", "f">>, <<"l", "o", "u", "d", "n", "o", "r", "m", "=", "I", "=", "-", "1", "4", ":", "T", "P", "=", "-", "1", ":", "L", "R", "A", "=", "1", "1">>>>

\* download.py lines 155-161
TrimArgs(ppa, start, end) ==
    IF start.some \/ end.some
    THEN LET pp_args == (IF start.some THEN <<<<"-", "s", "s">>, FloatStr(start.val)>> ELSE <<>>)
                        \o (IF end.some THEN <<<<"-", "t", "o">>, FloatStr(end.val)>> ELSE <<>>)
         IN  [present |-> TRUE, keys |-> {"ffmpeg_i1"}, ffmpeg_i1 |-> pp_args,
              ffmpeg_o |-> <<>>]
    ELSE ppa

\* a normalization that puts a new dict in place of the one that is there
NormalizeArgsOverwriting(ppa, normalize, mode) ==
    IF normalize /\ mode = "mp3"
    THEN [present |-> TRUE, keys |-> {"ffmpeg_o"}, ffmpeg_i1 |-> <<>>,
          ffmpeg_o |-> norm_args]
    ELSE ppa

\* download.py lines 164-171: setdefault keeps the dict that is there; the list
\* under 'ffmpeg_o' is extended or set
NormalizeArgs(ppa, normalize, mode) ==
    IF normalize /\ mode = "mp3"
    THEN [present   |-> TRUE,
          keys      |-> ppa.keys \cup {"ffmpeg_o"},
          ffmpeg_i1 |-> ppa.ffmpeg_i1,
          ffmpeg_o  |-> IF "ffmpeg_o" \in ppa.keys THEN ppa.ffmpeg_o \o norm_args
                        ELSE norm_args]
    ELSE ppa

\* download.py lines 154-171: opts["postprocessor_args"] as download() builds it
download_postprocessor_args(start, end, normalize, mode) ==
    NormalizeArgs(TrimArgs(NoPostprocessorArgs, start, end), normalize, mode)

\* app.py lines 453-459
AppTrimArgs(ppa, start, end) ==
    IF ~(~start.some /\ ~end.some)
    THEN LET from == IF start.some THEN <<<<"-", "s", "s">>, FloatStr(start.val)>> ELSE <<>>
             to   == IF end.some THEN <<<<"-", "t", "o">>, FloatStr(end.val)>> ELSE <<>>
         IN  [ppa EXCEPT !.present = TRUE, !.keys = {"ffmpeg_i1"},
                         !.ffmpeg_i1 = from \o to, !.ffmpeg_o = <<>>]
    ELSE ppa

\* app.py lines 462-468
AppNormalizeArgs(ppa, normalize, mode) ==
    IF ~normalize \/ mode # "mp3" THEN ppa
    ELSE IF "ffmpeg_o" \in ppa.keys
    THEN [ppa EXCEPT !.present = TRUE, !.ffmpeg_o = @ \o norm_args]
    ELSE [ppa EXCEPT !.present = TRUE, !.keys = @ \cup {"ffmpeg_o"},
                     !.ffmpeg_o = norm_args]

\* app.py lines 453-469: opts["postprocessor_args"] as do_download builds it
do_download_postprocessor_args(start, end, normalize, mode) ==
    AppNormalizeArgs(AppTrimArgs(NoPostprocessorArgs, start, end), normalize, mode)

(***************************************************************************)
(* download.py run from the command line, one action per stretch of code.  *)
(* cli.pc: "parse_args" -> "trim" -> "check_ffmpeg" -> "validate_url" ->   *)
(*         "sanitize_path" -> "makedirs" -> "options" -> "extract" ->      *)
(*         "post" -> "exited"                                              *)
(***************************************************************************)
\* the process ends with the given status after printing
CliExit(status, printed) ==
    cli' = [cli EXCEPT !.pc = "exited", !.exit_status = status,
                       !.printed = @ \o printed]

\* line 236: argparse converts --start and --end with float(); a text that is
\* no float ends the process with status 2
ParseArgs ==
    /\ entry = "cli" /\ cli.pc = "parse_args"
    /\ LET s == IF cli.argv.start.some THEN ParseFloat(cli.argv.start.val) ELSE ValueError
           e == IF cli.argv.end.some THEN ParseFloat(cli.argv.end.val) ELSE ValueError
       IN  IF (cli.argv.start.some /\ ~s.ok) \/ (cli.argv.end.some /\ ~e.ok)
           THEN CliExit(2, <<"error: invalid float value">>)
           ELSE cli' = [cli EXCEPT
                          !.pc = "trim",
                          !.args_start = IF cli.argv.start.some THEN Some(s.val) ELSE None,
                          !.args_end = IF cli.argv.end.some THEN Some(e.val) ELSE None]
    /\ UNCHANGED <<entry, env, dirs, app, after_queue, threads>>
    /\ UNCHANGED <<lyricsVars, stemsVars>>

\* lines 239-247: the trim values are checked and the mode is chosen
ValidateTrim ==
    /\ entry = "cli" /\ cli.pc = "trim"
    /\ IF cli.args_start.some /\ validate_seconds(cli.args_start.val).exits
       THEN CliExit(1, <<"Invalid start value: must be a non-negative number.">>)
       ELSE IF cli.args_end.some /\ validate_seconds(cli.args_end.val).exits
       THEN CliExit(1, <<"Invalid end value: must be a non-negative number.">>)
       ELSE IF /\ cli.args_start.some /\ cli.args_end.some
               /\ FloatGe(cli.args_start.val, cli.args_end.val)
       THEN CliExit(1, <<"Error: --start must be less than --end">>)
       ELSE cli' = [cli EXCEPT
                      !.pc = "check_ffmpeg",
                      !.mode = IF cli.argv.video
                               THEN (IF cli.argv.quality = "360" THEN "mp4_360"
                                     ELSE "mp4_720")
                               ELSE "mp3"]
    /\ UNCHANGED <<entry, env, dirs, app, after_queue, threads>>
    /\ UNCHANGED <<lyricsVars, stemsVars>>

\* lines 249, 76-82
CheckFfmpeg ==
    /\ entry = "cli" /\ cli.pc = "check_ffmpeg"
    /\ IF env.ffmpeg THEN cli' = [cli EXCEPT !.pc = "validate_url"]
       ELSE CliExit(1, <<"FFmpeg is not installed!">>)
    /\ UNCHANGED <<entry, env, dirs, app, after_queue, threads>>
    /\ UNCHANGED <<lyricsVars, stemsVars>>

\* lines 250, 101: download() starts with validate_url(url)
ValidateUrl ==
    /\ entry = "cli" /\ cli.pc = "validate_url"
    /\ LET r == validate_url(cli.argv.url)
       IN  IF r.exits THEN CliExit(r.status, r.printed)
           ELSE cli' = [cli EXCEPT !.pc = "sanitize_path", !.url = Some(r.val)]
    /\ UNCHANGED <<entry, env, dirs, app, after_queue, threads>>
    /\ UNCHANGED <<lyricsVars, stemsVars>>

\* line 102
SanitizePath ==
    /\ entry = "cli" /\ cli.pc = "sanitize_path"
    /\ LET r == sanitize_path(cli.argv.output)
       IN  IF r.exits THEN CliExit(r.status, r.printed)
           ELSE cli' = [cli EXCEPT !.pc = "makedirs", !.output_dir = Some(r.val)]
    /\ UNCHANGED <<entry, env, dirs, app, after_queue, threads>>
    /\ UNCHANGED <<lyricsVars, stemsVars>>

\* line 103: os.makedirs(output_dir, exist_ok=True); an OSError is caught
\* nowhere and ends the process with a traceback and status 1
Makedirs ==
    /\ entry = "cli" /\ cli.pc = "makedirs"
    /\ IF MakedirsFails(cli.output_dir.val)
       THEN CliExit(1, <<"Traceback">>) /\ UNCHANGED dirs
       ELSE /\ dirs' = AfterMakedirs(dirs, cli.output_dir.val)
            /\ cli' = [cli EXCEPT !.pc = "options", !.made = Some(cli.output_dir.val)]
    /\ UNCHANGED <<entry, env, app, after_queue, threads>>
    /\ UNCHANGED <<lyricsVars, stemsVars>>

\* "/%(title)s.%(ext)s": what os.path.join puts after the directory
OutputTemplate ==
    <<"/", "%", "(", "t", "i", "t", "l", "e", ")", "s", ".", "%", "(", "e", "x", "t", ")",
      "s">>

\* lines 105-187: the options of the extractor; detect_cookie_browser() never
\* raises
BuildOptions ==
    /\ entry = "cli" /\ cli.pc = "options"
    /\ cli' = [cli EXCEPT
                 !.pc = "extract",
                 !.outtmpl = Some(cli.output_dir.val \o OutputTemplate),
                 !.cookies_looked_up = TRUE,
                 !.postprocessor_args =
                     download_postprocessor_args(cli.args_start, cli.args_end,
                                                 cli.argv.normalize, cli.mode)]
    /\ UNCHANGED <<entry, env, dirs, app, after_queue, threads>>
    /\ UNCHANGED <<lyricsVars, stemsVars>>

\* lines 189-206: the extraction and, for an MP3 with subtitles, the conversion
\* of the .srt files; every exception ends the process with status 1
Extract ==
    /\ entry = "cli" /\ cli.pc = "extract"
    /\ IF ~env.extract_ok \/ (cli.argv.subtitles /\ cli.mode = "mp3" /\ ~env.srt_ok)
       THEN cli' = [cli EXCEPT !.pc = "exited", !.exit_status = 1, !.launched = TRUE,
                               !.printed = @ \o <<"Failed">>]
       ELSE cli' = [cli EXCEPT !.pc = "post", !.launched = TRUE,
                               !.printed = @ \o <<"Done! Saved">>]
    /\ UNCHANGED <<entry, env, dirs, app, after_queue, threads>>
    /\ UNCHANGED <<lyricsVars, stemsVars>>

\* lines 253-279: stem separation and analysis report their failures and go
\* on; the end of the script is status 0
PostDownload ==
    /\ entry = "cli" /\ cli.pc = "post"
    /\ CliExit(0, <<>>)
    /\ UNCHANGED <<entry, env, dirs, app, after_queue, threads>>
    /\ UNCHANGED <<lyricsVars, stemsVars>>

(***************************************************************************)
(* app.py: the event loop.  The handlers run one at a time on the main     *)
(* thread; self.after(0, f) puts f at the end of after_queue and the loop  *)
(* runs the callbacks in order.  The log box and the progress bar are not  *)
(* in the model, nor are the callbacks that touch nothing else.            *)
(***************************************************************************)
\* set_status(text): self.after(0, lambda: self.status.configure(text=text))
StatusCallback(text) == [kind |-> "status", text |-> text]

\* lines 539-545: the callback that puts the button and the URL entry back
ReenableCallback == [kind |-> "reenable", text |-> ""]

\* lines 293-321: (start, end), or the status to show when a value is refused
parse_trim(start_entry, end_entry) ==
    LET start_text == Strip(start_entry)
        end_text   == Strip(end_entry)
        s == ParseFloat(start_text)
        e == ParseFloat(end_text)
        start == IF start_text # <<>> THEN Some(s.val) ELSE None
        end   == IF end_text # <<>> THEN Some(e.val) ELSE None
    IN  IF start_text # <<>> /\ (~s.ok \/ ~PassesSignCheck(s.val))
        THEN [error |-> "Invalid start time", start |-> None, end |-> None]
        ELSE IF end_text # <<>> /\ (~e.ok \/ ~PassesSignCheck(e.val))
        THEN [error |-> "Invalid end time", start |-> None, end |-> None]
        ELSE IF start.some /\ end.some /\ FloatGe(start.val, end.val)
        THEN [error |-> "Start must be less than End", start |-> None, end |-> None]
        ELSE [error |-> "", start |-> start, end |-> end]

\* lines 325-331
get_download_mode(fmt) ==
    IF fmt = "MP4 360p" THEN "mp4_360"
    ELSE IF fmt = "MP4 720p" THEN "mp4_720"
    ELSE "mp3"

\* a thread that runs do_download(url, start, end, mode), about to start
NewThread(url, start, end, mode) ==
    [pc |-> "makedirs", url |-> url, start |-> start, end |-> end, mode |-> mode,
     output_dir |-> <<>>, postprocessor_args |-> NoPostprocessorArgs]

\* the most downloads one run of the program starts
MaxDownloads == 2

\* the most callbacks that wait while the user presses the button once more
MaxPending == 2

\* the handler returns after showing a status
Refuse(text) ==
    /\ after_queue' = Append(after_queue, StatusCallback(text))
    /\ UNCHANGED <<app, threads>>

\* a start that leaves the button as it is
StartDownloadButtonLeftEnabled ==
    /\ entry = "gui"
    /\ app.dl_btn_state = "normal"
    /\ Len(threads) < MaxDownloads
    /\ Len(after_queue) < MaxPending
    /\ LET url  == Strip(app.url_entry)
           trim == parse_trim(app.start_entry, app.end_entry)
       IN  IF url = <<>> THEN Refuse("Paste a YouTube URL first!")
           ELSE IF Len(url) > MAX_URL_LENGTH THEN Refuse("URL is too long")
           ELSE IF ~ALLOWED_URL(url) THEN Refuse("Invalid URL")
           ELSE IF ~env.ffmpeg THEN Refuse("FFmpeg not found")
           ELSE IF trim.error # "" THEN Refuse(trim.error)
           ELSE /\ app' = [app EXCEPT !.downloading = TRUE,
                                      !.url_entry_state = "disabled"]
                /\ after_queue' = Append(after_queue, StatusCallback("Starting..."))
                /\ threads' = Append(threads,
                                     NewThread(url, trim.start, trim.end,
                                               get_download_mode(app.format_var)))
    /\ UNCHANGED <<entry, env, dirs, cli>>
    /\ UNCHANGED <<lyricsVars, stemsVars>>

\* lines 333-374: the command of the download button, which a disabled button
\* does not run
start_download ==
    /\ entry = "gui"
    /\ app.dl_btn_state = "normal"
    /\ Len(threads) < MaxDownloads
    /\ Len(after_queue) < MaxPending
    /\ LET url  == Strip(app.url_entry)
           trim == parse_trim(app.start_entry, app.end_entry)
       IN  IF url = <<>> THEN Refuse("Paste a YouTube URL first!")
           ELSE IF Len(url) > MAX_URL_LENGTH THEN Refuse("URL is too long")
           ELSE IF ~ALLOWED_URL(url) THEN Refuse("Invalid URL")
           ELSE IF ~env.ffmpeg THEN Refuse("FFmpeg not found")
           ELSE IF trim.error # "" THEN Refuse(trim.error)
           ELSE /\ app' = [app EXCEPT !.downloading = TRUE,
                                      !.dl_btn_state = "disabled",
                                      !.url_entry_state = "disabled"]
                /\ after_queue' = Append(after_queue, StatusCallback("Starting..."))
                /\ threads' = Append(threads,
                                     NewThread(url, trim.start, trim.end,
                                               get_download_mode(app.format_var)))
    /\ UNCHANGED <<entry, env, dirs, cli>>
    /\ UNCHANGED <<lyricsVars, stemsVars>>

\* the event loop runs the oldest callback
RunCallback ==
    /\ entry = "gui"
    /\ after_queue # <<>>
    /\ after_queue' = Tail(after_queue)
    /\ IF after_queue[1].kind = "reenable"
       THEN app' = [app EXCEPT !.dl_btn_state = "normal", !.url_entry_state = "normal"]
       ELSE app' = [app EXCEPT !.status = after_queue[1].text]
    /\ UNCHANGED <<entry, env, dirs, cli, threads>>
    /\ UNCHANGED <<lyricsVars, stemsVars>>

\* lines 276-289, with the clipboard watch on: a YouTube link on the clipboard
\* that was not seen before goes into the URL entry; a disabled entry takes no
\* text
poll_clipboard ==
    /\ entry = "gui"
    /\ app.clipboard_var
    /\ LET text == Strip(env.clipboard)
       IN  /\ text # app.last_clipboard
           /\ ALLOWED_URL(text)
           /\ app' = [app EXCEPT
                        !.last_clipboard = text,
                        !.url_entry = IF app.url_entry_state = "normal" THEN text ELSE @]
           /\ after_queue' = Append(after_queue, StatusCallback("YouTube link detected!"))
    /\ UNCHANGED <<entry, env, dirs, cli, threads>>
    /\ UNCHANGED <<lyricsVars, stemsVars>>

(***************************************************************************)
(* app.py: do_download, run by a thread of its own.                        *)
(* pc of a thread: "makedirs" -> "options" -> "extract" -> "subtitles" ->  *)
(*     "analyze" -> "stems" -> "finally" -> "ended"; "except" when an      *)
(*     exception reaches line 532; "died" when one leaves the function.    *)
(***************************************************************************)
\* thread i goes on to pc p
Goto(i, p) == threads' = [threads EXCEPT ![i].pc = p]

\* set_status(text) called by a thread
SetStatus(text) == after_queue' = Append(after_queue, StatusCallback(text))

\* lines 377-378, before the try: an OSError of os.makedirs leaves do_download,
\* and the thread ends with it
WorkerMakedirs(i) ==
    /\ threads[i].pc = "makedirs"
    /\ \E output_dir \in {realpath(app.output_dir)} :
           IF MakedirsFails(output_dir)
           THEN Goto(i, "died") /\ UNCHANGED dirs
           ELSE /\ dirs' = AfterMakedirs(dirs, output_dir)
                /\ threads' = [threads EXCEPT ![i].pc = "options",
                                              ![i].output_dir = output_dir]
    /\ UNCHANGED <<app, after_queue>>

\* lines 379-469, before the try: the switches are read, the cookies looked
\* for (detect_cookie_browser catches what the browsers raise), and the
\* options of the extractor built
WorkerOptions(i) ==
    /\ threads[i].pc = "options"
    /\ threads' = [threads EXCEPT
                     ![i].pc = "extract",
                     ![i].postprocessor_args =
                         do_download_postprocessor_args(threads[i].start, threads[i].end,
                                                        app.normalize_var, threads[i].mode)]
    /\ UNCHANGED <<app, after_queue, dirs>>

\* lines 471-486 and the progress hook, lines 385-400: the extraction; for a
\* playlist the tracks are counted and nothing more is done
WorkerExtract(i) ==
    /\ threads[i].pc = "extract"
    /\ IF ~env.extract_ok THEN Goto(i, "except") /\ UNCHANGED after_queue
       ELSE IF env.playlist
       THEN Goto(i, "finally") /\ SetStatus("Done - tracks saved")
       ELSE Goto(i, "subtitles") /\ SetStatus("Converting...")
    /\ UNCHANGED <<app, dirs>>

\* lines 488-495: the .srt files of an MP3 are converted; what srt_to_lrc
\* raises is caught at line 532
WorkerSubtitles(i) ==
    /\ threads[i].pc = "subtitles"
    /\ IF app.subtitle_var /\ threads[i].mode = "mp3" /\ ~env.srt_ok
       THEN Goto(i, "except")
       ELSE Goto(i, "analyze")
    /\ UNCHANGED <<app, after_queue, dirs>>

\* lines 498-510: the analysis; its exceptions are caught at line 509
WorkerAnalyze(i) ==
    /\ threads[i].pc = "analyze"
    /\ Goto(i, "stems")
    /\ IF app.analyze_var /\ threads[i].mode = "mp3"
       THEN SetStatus("Analyzing BPM & Key...")
       ELSE UNCHANGED after_queue
    /\ UNCHANGED <<app, dirs>>

\* lines 513-531: the stem separation, its exceptions caught at line 526, and
\* the closing status
WorkerStems(i) ==
    /\ threads[i].pc = "stems"
    /\ Goto(i, "finally")
    /\ after_queue' =
         after_queue
         \o (IF app.stems_var /\ threads[i].mode = "mp3"
             THEN <<StatusCallback("Separating stems...")>> ELSE <<>>)
         \o <<StatusCallback("Done")>>
    /\ UNCHANGED <<app, dirs>>

\* lines 532-535
WorkerExcept(i) ==
    /\ threads[i].pc = "except"
    /\ Goto(i, "finally")
    /\ SetStatus("Download failed")
    /\ UNCHANGED <<app, dirs>>

\* lines 536-545
WorkerFinally(i) ==
    /\ threads[i].pc = "finally"
    /\ Goto(i, "ended")
    /\ app' = [app EXCEPT !.downloading = FALSE]
    /\ after_queue' = Append(after_queue, ReenableCallback)
    /\ UNCHANGED dirs

\* one step of one do_download thread
WorkerStep ==
    /\ entry = "gui"
    /\ \E i \in 1..Len(threads) :
         \/ WorkerMakedirs(i)
         \/ WorkerOptions(i)
         \/ WorkerExtract(i)
         \/ WorkerSubtitles(i)
         \/ WorkerAnalyze(i)
         \/ WorkerStems(i)
         \/ WorkerExcept(i)
         \/ WorkerFinally(i)
    /\ UNCHANGED <<entry, env, cli>>
    /\ UNCHANGED <<lyricsVars, stemsVars>>

(***************************************************************************)
(* The inputs of SpecDownload.                                             *)
(***************************************************************************)
\* 'https://www.youtube.com/watch?v=x'
UrlWatch == <<"h", "t", "t", "p", "s", ":", "/", "/", "w", "w", "w", ".", "y", "o", "u", "t", "u", "b", "e", ".", "c", "o", "m", "/", "w", "a", "t", "c", "h", "?", "v", "=", "x">>

\* 'https://youtu.be/' and letters up to n characters in all
UrlOfLength(n) ==
    LET head == <<"h", "t", "t", "p", "s", ":", "/", "/", "y", "o", "u", "t", "u", ".",
                  "b", "e", "/">>
    IN  head \o [i \in 1..(n - Len(head)) |-> "a"]

\* text that is no URL, n characters long
JunkOfLength(n) == [i \in 1..n |-> "x"]

\* URLs put together from a scheme, a prefix of the host, a host and what
\* follows it
AssembledUrls ==
    { scheme \o www \o host \o tail :
        scheme \in {<<"h", "t", "t", "p", ":", "/", "/">>, <<"h", "t", "t", "p", "s", ":", "/", "/">>, <<"f", "t", "p", ":", "/", "/">>, <<>>},
        www \in {<<>>, <<"w", "w", "w", ".">>, <<"m", ".">>},
        host \in AllowedHosts \cup {<<"e", "v", "i", "l", ".", "c", "o", "m">>, <<"y", "o", "u", "t", "u", "b", "e", ".", "c", "o", "m", "x">>},
        tail \in {<<>>, <<"/">>, <<"/", "a">>, <<"/", "a", "\n">>, <<"/", "\n">>, <<"/", "a", "\n", "b">>, <<".", "e", "v", "i", "l", ".", "i", "o", "/", "a">>} }

\* the longest URL let through, and two that are one character too long: one
\* that the pattern matches and one that it does not
LongUrls ==
    {UrlOfLength(MAX_URL_LENGTH), UrlOfLength(MAX_URL_LENGTH + 1),
     JunkOfLength(MAX_URL_LENGTH + 1)}

CliUrls ==
    AssembledUrls \cup LongUrls
    \cup {UrlWatch, <<" ">> \o UrlWatch, <<"H", "T", "T", "P", "S", ":", "/", "/", "y", "o", "u", "t", "u", "b", "e", ".", "c", "o", "m", "/", "a">>}

\* values of -o: plain, nested, with '.' and empty components, absolute,
\* through the link, the link, with '..' as a component, with '..' in a name,
\* at the regular file, below it, empty
CliOutputs ==
    {<<"d", "o", "w", "n", "l", "o", "a", "d", "s">>, <<"o", "u", "t", "/", "x">>, <<".", "/", "a", "/", "/", "b", "/">>, <<"/", "d", "a", "t", "a", "/", "m", "u", "s", "i", "c">>, <<"l", "i", "n", "k", "/", "o", "u", "t">>, <<"l", "i", "n", "k">>,
     <<".", ".", "/", "e", "t", "c">>, <<"a", "/", ".", ".", "/", "b">>, <<"m", "y", ".", ".", "d", "i", "r">>, <<"b", "l", "o", "c", "k", "e", "d">>, <<"b", "l", "o", "c", "k", "e", "d", "/", "s", "u", "b">>, <<>>}

\* values of --start and --end
CliTrimTexts ==
    {<<"0">>, <<"5">>, <<"1", "0", ".", "5">>, <<"-", "1">>, <<"a", "b", "c">>, <<"n", "a", "n">>, <<"i", "n", "f">>, <<" ", "7", " ">>}

Argv(url, output, start, end, video, quality, normalize, subtitles) ==
    [url |-> url, output |-> output, start |-> start, end |-> end, video |-> video,
     quality |-> quality, normalize |-> normalize, subtitles |-> subtitles]

\* the world: whether ffmpeg is installed, whether the extraction goes
\* through, whether what it returns is a playlist, whether srt_to_lrc returns,
\* and the text on the clipboard
Env(ffmpeg, extract_ok, playlist, srt_ok, clipboard) ==
    [ffmpeg |-> ffmpeg, extract_ok |-> extract_ok, playlist |-> playlist,
     srt_ok |-> srt_ok, clipboard |-> clipboard]

EnvFine == Env(TRUE, TRUE, FALSE, TRUE, <<>>)

\* the process of download.py before its first statement
CliStart(argv) ==
    [argv |-> argv, pc |-> "parse_args", args_start |-> None, args_end |-> None,
     mode |-> "", url |-> None, output_dir |-> None, made |-> None, outtmpl |-> None,
     cookies_looked_up |-> FALSE, postprocessor_args |-> NoPostprocessorArgs,
     launched |-> FALSE, printed |-> <<>>, exit_status |-> -1]

\* every URL, the other arguments left out
InitCliUrls ==
    /\ env = EnvFine
    /\ \E u \in CliUrls :
         cli = CliStart(Argv(u, <<"d", "o", "w", "n", "l", "o", "a", "d", "s">>, None, None, FALSE, "720", FALSE, FALSE))

\* every output directory
InitCliOutputs ==
    /\ env = EnvFine
    /\ \E o \in CliOutputs :
         cli = CliStart(Argv(UrlWatch, o, None, None, FALSE, "720", FALSE, FALSE))

\* every pair of trim values, every mode, with and without normalization
InitCliTrims ==
    /\ env = EnvFine
    /\ \E st, en \in {None} \cup {Some(t) : t \in CliTrimTexts},
          video \in BOOLEAN, quality \in {"360", "720"}, normalize \in BOOLEAN :
         /\ (~video => quality = "720")
         /\ cli = CliStart(Argv(UrlWatch, <<"d", "o", "w", "n", "l", "o", "a", "d", "s">>, st, en, video, quality, normalize,
                                FALSE))

\* every answer of the world
InitCliEnv ==
    /\ \E ffmpeg, extract_ok, srt_ok \in BOOLEAN :
         env = Env(ffmpeg, extract_ok, FALSE, srt_ok, <<>>)
    /\ \E subtitles \in BOOLEAN :
         cli = CliStart(Argv(UrlWatch, <<"d", "o", "w", "n", "l", "o", "a", "d", "s">>, None, None, FALSE, "720", FALSE,
                             subtitles))

InitCli ==
    /\ entry = "cli"
    /\ InitCliUrls \/ InitCliOutputs \/ InitCliTrims \/ InitCliEnv
    /\ dirs = InitialDirs
    /\ app = <<>>
    /\ after_queue = <<>>
    /\ threads = <<>>

\* what the URL entry may hold: a link, a link between blanks, a link with a
\* line break after it, nothing, blanks, a link to another site, a YouTube
\* address without a path, a link that is too long
GuiUrls ==
    {UrlWatch, <<" ">> \o UrlWatch \o <<" ", " ">>, <<"h", "t", "t", "p", "s", ":", "/", "/", "y", "o", "u", "t", "u", ".", "b", "e", "/", "a", "\n">>, <<>>,
     <<" ", " ">>, <<"h", "t", "t", "p", "s", ":", "/", "/", "e", "v", "i", "l", ".", "c", "o", "m", "/", "y", "o", "u", "t", "u", "b", "e", ".", "c", "o", "m", "/", "x">>, <<"h", "t", "t", "p", "s", ":", "/", "/", "y", "o", "u", "t", "u", "b", "e", ".", "c", "o", "m", "/">>,
     UrlOfLength(MAX_URL_LENGTH + 1)}

\* what the trim entries may hold
GuiTrimTexts == {<<>>, <<"5">>, <<" ", "1", "0", ".", "5">>, <<"-", "1">>, <<"a", "b", "c">>, <<"n", "a", "n">>}

\* the App object after __init__ and build_ui, the entries filled in
AppStart(url, start, end, fmt, normalize, extras, clip, output_dir) ==
    [url_entry |-> url, start_entry |-> start, end_entry |-> end, format_var |-> fmt,
     normalize_var |-> normalize, subtitle_var |-> extras, analyze_var |-> extras,
     stems_var |-> extras, clipboard_var |-> clip, output_dir |-> output_dir,
     downloading |-> FALSE, last_clipboard |-> <<>>, dl_btn_state |-> "normal",
     url_entry_state |-> "normal", status |-> "Ready"]

GuiFormats == {"MP3", "MP4 360p", "MP4 720p"}

\* every content of the URL entry
InitGuiUrls ==
    /\ env = EnvFine
    /\ \E u \in GuiUrls :
         app = AppStart(u, <<>>, <<>>, "MP3", FALSE, FALSE, FALSE, <<"/", "w", "/", "d", "o", "w", "n", "l", "o", "a", "d", "s">>)

\* every pair of trim entries, every format, with and without normalization
InitGuiTrims ==
    /\ env = EnvFine
    /\ \E st, en \in GuiTrimTexts, fmt \in GuiFormats, normalize \in BOOLEAN :
         app = AppStart(UrlWatch, st, en, fmt, normalize, FALSE, FALSE, <<"/", "w", "/", "d", "o", "w", "n", "l", "o", "a", "d", "s">>)

\* every answer of the world, the output folder free or taken by a file, the
\* clipboard watch off or on with another link on the clipboard
InitGuiEnv ==
    /\ \E ffmpeg, extract_ok, playlist, srt_ok \in BOOLEAN :
         env = Env(ffmpeg, extract_ok, playlist, srt_ok, <<" ", "h", "t", "t", "p", "s", ":", "/", "/", "y", "o", "u", "t", "u", ".", "b", "e", "/", "b", " ">>)
    /\ \E extras, clip \in BOOLEAN,
          folder \in {<<"/", "w", "/", "d", "o", "w", "n", "l", "o", "a", "d", "s">>, <<"/", "w", "/", "b", "l", "o", "c", "k", "e", "d">>} :
         app = AppStart(UrlWatch, <<>>, <<>>, "MP3", FALSE, extras, clip, folder)

InitGui ==
    /\ entry = "gui"
    /\ InitGuiUrls \/ InitGuiTrims \/ InitGuiEnv
    /\ dirs = InitialDirs
    /\ cli = <<>>
    /\ after_queue = <<>>
    /\ threads = <<>>

InitDownload ==
    /\ TimeIdle
    /\ CallIdle
    /\ StemsIdle
    /\ InitCli \/ InitGui

NextCli ==
    \/ ParseArgs
    \/ ValidateTrim
    \/ CheckFfmpeg
    \/ ValidateUrl
    \/ SanitizePath
    \/ Makedirs
    \/ BuildOptions
    \/ Extract
    \/ PostDownload

NextGui ==
    \/ start_download
    \/ RunCallback
    \/ poll_clipboard
    \/ WorkerStep

NextDownload == NextCli \/ NextGui

\* either program, from the command line or the window
SpecDownload == InitDownload /\ [][NextDownload]_vars

InitWindow ==
    /\ TimeIdle
    /\ CallIdle
    /\ StemsIdle
    /\ InitGui

\* the window alone: the event loop keeps running its callbacks and the
\* threads keep running; nothing makes the user press the button
SpecGui ==
    /\ InitWindow
    /\ [][NextGui]_vars
    /\ WF_vars(RunCallback)
    /\ WF_vars(WorkerStep)

(***************************************************************************)
(* Properties of the downloader (under SpecDownload).                      *)
(***************************************************************************)
\* u is 'http://' or 'https://', then 'www.' or nothing, then one of the three
\* hosts, then '/', then at least one more character
IsYouTubeUrl(u) ==
    \E scheme \in {<<"h", "t", "t", "p", ":", "/", "/">>, <<"h", "t", "t", "p", "s", ":", "/", "/">>},
       www \in {<<>>, <<"w", "w", "w", ".">>},
       host \in {<<"y", "o", "u", "t", "u", "b", "e", ".", "c", "o", "m">>, <<"y", "o", "u", "t", "u", ".", "b", "e">>, <<"m", "u", "s", "i", "c", ".", "y", "o", "u", "t", "u", "b", "e", ".", "c", "o", "m">>} :
        LET head == scheme \o www \o host \o <<"/">>
        IN  Len(u) > Len(head) /\ SubSeq(u, 1, Len(head)) = head

\* download() has done nothing yet: no directory made, no cookies looked for,
\* no extraction
NothingDone ==
    /\ ~cli.made.some
    /\ dirs = InitialDirs
    /\ ~cli.cookies_looked_up
    /\ ~cli.launched

\* the process ended in validate_url: the checks before it were passed
ExitedInValidateUrl ==
    cli.pc = "exited" /\ cli.mode # "" /\ env.ffmpeg /\ ~cli.url.some

\* C13: validate_url returns its argument, unchanged, only when it is at most
\* 2048 characters long and is 'http://' or 'https://', an optional 'www.', one
\* of youtube.com, youtu.be, music.youtube.com, a '/', and at least one more
\* character; for every other string the process exits with status 1 and
\* download() has made no directory, looked for no cookies and extracted
\* nothing; a string that is too long is refused for its length, whatever the
\* pattern says of it.
C13_OnlyYouTubeUrlsPass ==
    entry = "cli" =>
        LET u    == cli.argv.url
            good == Len(u) <= MAX_URL_LENGTH /\ IsYouTubeUrl(u)
        IN  /\ cli.url.some => (good /\ cli.url.val = u)
            /\ ~good => /\ cli.pc \in {"parse_args", "trim", "check_ffmpeg",
                                       "validate_url", "exited"}
                        /\ NothingDone
                        /\ ExitedInValidateUrl => cli.exit_status = 1
            /\ (ExitedInValidateUrl /\ Len(u) > MAX_URL_LENGTH) =>
                   cli.printed = <<"URL is too long.">>

\* C13 witness: the URL of exactly 2048 characters went through to the
\* extraction
C13_Witness ==
    /\ entry = "cli"
    /\ Len(cli.argv.url) = MAX_URL_LENGTH
    /\ cli.url = Some(cli.argv.url)
    /\ cli.launched

\* the real paths of the output directories of the model, the working
\* directory being /w and /w/link a link to /data
ExpectedRealpath(o) ==
    CASE o = <<"d", "o", "w", "n", "l", "o", "a", "d", "s">>   -> <<"/", "w", "/", "d", "o", "w", "n", "l", "o", "a", "d", "s">>
      [] o = <<"o", "u", "t", "/", "x">>       -> <<"/", "w", "/", "o", "u", "t", "/", "x">>
      [] o = <<".", "/", "a", "/", "/", "b", "/">>     -> <<"/", "w", "/", "a", "/", "b">>
      [] o = <<"/", "d", "a", "t", "a", "/", "m", "u", "s", "i", "c">> -> <<"/", "d", "a", "t", "a", "/", "m", "u", "s", "i", "c">>
      [] o = <<"l", "i", "n", "k", "/", "o", "u", "t">>    -> <<"/", "d", "a", "t", "a", "/", "o", "u", "t">>
      [] o = <<"l", "i", "n", "k">>        -> <<"/", "d", "a", "t", "a">>
      [] o = <<"b", "l", "o", "c", "k", "e", "d">>     -> <<"/", "w", "/", "b", "l", "o", "c", "k", "e", "d">>
      [] o = <<"b", "l", "o", "c", "k", "e", "d", "/", "s", "u", "b">> -> <<"/", "w", "/", "b", "l", "o", "c", "k", "e", "d", "/", "s", "u", "b">>
      [] o = <<>>            -> <<"/", "w">>

\* o has two dots next to each other
HasDotDot(o) == \E i \in 1..(Len(o) - 1) : o[i] = "." /\ o[i + 1] = "."

\* the process ended in sanitize_path
ExitedInSanitizePath == cli.pc = "exited" /\ cli.url.some /\ ~cli.output_dir.some

\* C14: for an output path with '..' in it the process exits with status 1
\* before any directory is made; for every other path sanitize_path returns
\* the resolved real path, and that path, not the argument, is what download()
\* makes and puts into the output template.
C14_OutputDirIsResolved ==
    entry = "cli" =>
        LET o == cli.argv.output
        IN  /\ HasDotDot(o) =>
                 /\ ~cli.output_dir.some
                 /\ ~cli.made.some
                 /\ dirs = InitialDirs
                 /\ ExitedInSanitizePath => cli.exit_status = 1
            /\ ExitedInSanitizePath => HasDotDot(o)
            /\ cli.output_dir.some => cli.output_dir.val = ExpectedRealpath(o)
            /\ cli.made.some =>
                 /\ cli.made.val = ExpectedRealpath(o)
                 /\ cli.made.val \in dirs
            /\ cli.outtmpl.some =>
                 cli.outtmpl.val = ExpectedRealpath(o) \o OutputTemplate

\* C14 witness: with -o link/out, link being a link to /data, the directory
\* made and written into is /data/out
C14_Witness ==
    /\ entry = "cli"
    /\ cli.argv.output = <<"l", "i", "n", "k", "/", "o", "u", "t">>
    /\ cli.made = Some(<<"/", "d", "a", "t", "a", "/", "o", "u", "t">>)
    /\ <<"/", "d", "a", "t", "a", "/", "o", "u", "t">> \in dirs
    /\ cli.launched

\* x is a number and at least zero
IsNonNegativeNumber(x) == x.kind # "nan" /\ FloatGe(x, Zero)

\* trim values a download may be started with: each one that is given is a
\* number at least zero, and the start is below the end when both are given
ValidTrim(start, end) ==
    /\ start.some => IsNonNegativeNumber(start.val)
    /\ end.some => IsNonNegativeNumber(end.val)
    /\ (start.some /\ end.some) => FloatLess(start.val, end.val)

\* the trim value a text stands for: None when nothing is given, nan when the
\* text is no number
TrimOf(text) ==
    IF ~text.some THEN None
    ELSE IF ParseFloat(text.val).ok THEN Some(ParseFloat(text.val).val)
    ELSE Some(NaN)

\* an entry of the window as an optional text: nothing when it is blank
EntryText(e) == IF Strip(e) = <<>> THEN None ELSE Some(e)

\* C15: a download is started only with valid trim values.  From the command
\* line the extraction is launched only when every trim value given is a number
\* at least zero and the start is below the end; otherwise the process exits
\* with an error status (1 from the script's own checks, 2 when argparse
\* refuses a text that is no number).  In the window a thread is created only
\* under the same condition; otherwise no thread is created and the button
\* stays enabled.
C15_DownloadOnlyWithValidTrim ==
    /\ entry = "cli" =>
         LET valid == ValidTrim(TrimOf(cli.argv.start), TrimOf(cli.argv.end))
         IN  /\ cli.launched => valid
             /\ (~valid /\ cli.pc = "exited") => cli.exit_status \in {1, 2}
    /\ entry = "gui" =>
         LET valid == ValidTrim(TrimOf(EntryText(app.start_entry)),
                                TrimOf(EntryText(app.end_entry)))
         IN  /\ \A i \in 1..Len(threads) : ValidTrim(threads[i].start, threads[i].end)
             /\ ~valid => (threads = <<>> /\ app.dl_btn_state = "normal")

\* whether ppa is what the claim says of the post-processor arguments for
\* these inputs
IsExpectedArgs(ppa, start, end, normalize, mode) ==
    /\ "ffmpeg_i1" \in ppa.keys <=> (start.some \/ end.some)
    /\ "ffmpeg_i1" \in ppa.keys =>
         ppa.ffmpeg_i1 = (IF start.some THEN <<<<"-", "s", "s">>, FloatStr(start.val)>> ELSE <<>>)
                         \o (IF end.some THEN <<<<"-", "t", "o">>, FloatStr(end.val)>> ELSE <<>>)
    /\ "ffmpeg_o" \in ppa.keys <=> (normalize /\ mode = "mp3")
    /\ "ffmpeg_o" \in ppa.keys =>
         ppa.ffmpeg_o = <<<<"-", "a", "f">>, <<"l", "o", "u", "d", "n", "o", "r", "m", "=", "I", "=", "-", "1", "4", ":", "T", "P", "=", "-", "1", ":", "L", "R", "A", "=", "1", "1">>>>
    /\ ppa.keys \subseteq {"ffmpeg_i1", "ffmpeg_o"}
    /\ ppa.present <=> ppa.keys # {}

\* C16: the post-processor arguments built by download() and by do_download
\* hold 'ffmpeg_i1' exactly when start or end is given, with '-ss' str(start)
\* and then '-to' str(end) for those given; they hold 'ffmpeg_o' with the
\* loudnorm filter exactly when normalize is set and the mode is 'mp3';
\* normalization leaves what is under 'ffmpeg_i1' as it is without it; and
\* the other entry point builds the same arguments from the same inputs.
C16_PostprocessorArgs ==
    /\ (entry = "cli" /\ cli.outtmpl.some) =>
         LET s == cli.args_start
             e == cli.args_end
             n == cli.argv.normalize
             m == cli.mode
         IN  /\ IsExpectedArgs(cli.postprocessor_args, s, e, n, m)
             /\ cli.postprocessor_args.ffmpeg_i1
                  = download_postprocessor_args(s, e, FALSE, m).ffmpeg_i1
             /\ cli.postprocessor_args = do_download_postprocessor_args(s, e, n, m)
    /\ entry = "gui" =>
         \A i \in 1..Len(threads) :
             threads[i].pc \notin {"makedirs", "options", "died"} =>
                 LET s == threads[i].start
                     e == threads[i].end
                     n == app.normalize_var
                     m == threads[i].mode
                 IN  /\ IsExpectedArgs(threads[i].postprocessor_args, s, e, n, m)
                     /\ threads[i].postprocessor_args.ffmpeg_i1
                          = do_download_postprocessor_args(s, e, FALSE, m).ffmpeg_i1
                     /\ threads[i].postprocessor_args
                          = download_postprocessor_args(s, e, n, m)

\* C16 witness: --start 5 --end 10.5 --normalize in MP3 mode gave '-ss 5.0
\* -to 10.5' under 'ffmpeg_i1' and the loudnorm filter under 'ffmpeg_o'
C16_Witness ==
    /\ entry = "cli"
    /\ cli.launched
    /\ cli.mode = "mp3"
    /\ cli.postprocessor_args =
         [present |-> TRUE, keys |-> {"ffmpeg_i1", "ffmpeg_o"},
          ffmpeg_i1 |-> <<<<"-", "s", "s">>, <<"5", ".", "0">>, <<"-", "t", "o">>, <<"1", "0", ".", "5">>>>,
          ffmpeg_o |-> <<<<"-", "a", "f">>, <<"l", "o", "u", "d", "n", "o", "r", "m", "=", "I", "=", "-", "1", "4", ":", "T", "P", "=", "-", "1", ":", "L", "R", "A", "=", "1", "1">>>>]

\* the do_download threads that have not come to their end
Running == {i \in 1..Len(threads) : threads[i].pc \notin {"ended", "died"}}

\* whether a re-enable callback waits in the queue
ReenablePending == \E k \in 1..Len(after_queue) : after_queue[k].kind = "reenable"

\* C18: at most one do_download thread runs at any time; from the creation of
\* a thread until the re-enable callback of its finally block has run, the
\* download button is disabled, whatever clicks, callbacks and clipboard polls
\* come between; and whenever the button is enabled the downloading flag is
\* false.
C18_OneWorkerAtATime ==
    entry = "gui" =>
        /\ Cardinality(Running) <= 1
        /\ (Running # {} \/ ReenablePending) => app.dl_btn_state = "disabled"
        /\ app.dl_btn_state = "normal" =>
             /\ ~app.downloading
             /\ \A i \in 1..Len(threads) : threads[i].pc = "ended"
        /\ app.downloading => Cardinality(Running) = 1 \/ threads[Len(threads)].pc = "died"

\* C18 witness: a second download runs after the first has ended and its
\* callback has put the button back; the clipboard poll has replaced the URL
\* in between; the button is disabled again
C18_Witness ==
    /\ entry = "gui"
    /\ Len(threads) = 2
    /\ threads[1].pc = "ended"
    /\ threads[2].pc = "extract"
    /\ threads[2].url # threads[1].url
    /\ app.dl_btn_state = "disabled"
    /\ app.downloading

\* the window is idle: no download in progress, the button and the URL entry
\* enabled
GuiIdle ==
    /\ entry = "gui"
    /\ ~app.downloading
    /\ app.dl_btn_state = "normal"
    /\ app.url_entry_state = "normal"

\* C19: every download that start_download starts eventually leaves the window
\* idle again, whichever step of do_download fails or succeeds: the downloading
\* flag becomes false and the button and the URL entry are enabled, given that
\* the event loop keeps running its callbacks and the thread keeps running.
C19_EventuallyIdle == (entry = "gui" /\ app.downloading) ~> GuiIdle

(***************************************************************************)
(* stems.py: _patch_torchaudio_save and its caller _separate_demucs.       *)
(*                                                                         *)
(* stems is the process as far as the patch goes:                          *)
(*   torchaudio_patched  the global flag _torchaudio_patched (line 11)     *)
(*   save                what torchaudio.save is: "original" or "sf_save"  *)
(*   original_save       what _original_save of the installed _sf_save     *)
(*                       captured (line 25), "none" before any install     *)
(*   installs            how often line 34 has run                         *)
(*   loaded              the modules in sys.modules                        *)
(*   calls               the calls of _separate_demucs so far              *)
(*   returns             how each call of _patch_torchaudio_save ended     *)
(*   written_by          the routine the last run of demucs saved with     *)
(*   pc                  "idle" outside _separate_demucs, then "patch"     *)
(*                       (line 81), "import", "install", "flag", "print",  *)
(*                       "warn", "main" (line 84)                          *)
(* The calls come one after the other: do_download calls separate from     *)
(* its thread, and one such thread runs at a time.                         *)
(***************************************************************************)
MaxCalls == 3

\* the process before the first call, with the modules in loaded imported by
\* other code already
StemsStart(loaded) ==
    [pc |-> "idle", torchaudio_patched |-> FALSE, save |-> "original",
     original_save |-> "none", installs |-> 0, loaded |-> loaded,
     calls |-> 0, returns |-> <<>>, written_by |-> "none"]

\* lines 71-81: without demucs the function returns at line 77 and the patch is
\* not called; with it the call of line 81 follows
separate_demucs ==
    /\ stems.pc = "idle"
    /\ stems.calls < MaxCalls
    /\ \E demucs_ok \in BOOLEAN :
         stems' = [stems EXCEPT !.calls = @ + 1,
                                !.pc = IF demucs_ok THEN "patch" ELSE "idle"]
    /\ UNCHANGED <<lyricsVars, dlVars>>

\* a patch that does not look at the flag
patch_torchaudio_save_unguarded ==
    /\ stems.pc = "patch"
    /\ stems' = [stems EXCEPT !.pc = "import"]
    /\ UNCHANGED <<lyricsVars, dlVars>>

\* lines 17-19: 'if _torchaudio_patched: return'
patch_torchaudio_save ==
    /\ stems.pc = "patch"
    /\ stems' = IF stems.torchaudio_patched
                THEN [stems EXCEPT !.pc = "main",
                                   !.returns = Append(@, "returned at once")]
                ELSE [stems EXCEPT !.pc = "import"]
    /\ UNCHANGED <<lyricsVars, dlVars>>

\* how an import statement can end: a module in sys.modules is there; another
\* is found, is missing (ImportError), or fails while it loads (OSError of a
\* library it needs)
ImportOutcomes(module) ==
    IF module \in stems.loaded THEN {"ok"} ELSE {"ok", "ImportError", "OSError"}

\* lines 21-23 and 37, 92: 'import torchaudio', 'import soundfile as sf'; an
\* ImportError goes to line 37, any other exception leaves the function and is
\* caught at line 92 of _separate_demucs
ImportModules ==
    /\ stems.pc = "import"
    /\ \E torchaudio \in ImportOutcomes("torchaudio"),
          soundfile \in ImportOutcomes("soundfile") :
         stems' =
            IF torchaudio # "ok"
            THEN IF torchaudio = "ImportError"
                 THEN [stems EXCEPT !.pc = "warn"]
                 ELSE [stems EXCEPT !.pc = "idle", !.returns = Append(@, "raised")]
            ELSE IF soundfile # "ok"
            THEN IF soundfile = "ImportError"
                 THEN [stems EXCEPT !.pc = "warn", !.loaded = @ \cup {"torchaudio"}]
                 ELSE [stems EXCEPT !.pc = "idle", !.loaded = @ \cup {"torchaudio"},
                                    !.returns = Append(@, "raised")]
            ELSE [stems EXCEPT !.pc = "install",
                               !.loaded = @ \cup {"torchaudio", "soundfile"}]
    /\ UNCHANGED <<lyricsVars, dlVars>>

\* lines 25-34: '_original_save = torchaudio.save', 'def _sf_save',
\* 'torchaudio.save = _sf_save'
InstallSfSave ==
    /\ stems.pc = "install"
    /\ stems' = [stems EXCEPT !.pc = "flag",
                              !.original_save = stems.save,
                              !.save = "sf_save",
                              !.installs = @ + 1]
    /\ UNCHANGED <<lyricsVars, dlVars>>

\* line 35: '_torchaudio_patched = True'
SetPatchedFlag ==
    /\ stems.pc = "flag"
    /\ stems' = [stems EXCEPT !.pc = "print", !.torchaudio_patched = TRUE]
    /\ UNCHANGED <<lyricsVars, dlVars>>

\* line 36: the print of the message with its arrow, which a console that
\* cannot encode the arrow refuses (UnicodeEncodeError, caught at line 92)
PrintPatched ==
    /\ stems.pc = "print"
    /\ \E print_ok \in BOOLEAN :
         stems' = IF print_ok
                  THEN [stems EXCEPT !.pc = "main", !.returns = Append(@, "patched")]
                  ELSE [stems EXCEPT !.pc = "idle", !.returns = Append(@, "raised")]
    /\ UNCHANGED <<lyricsVars, dlVars>>

\* lines 37-38: 'except ImportError: print("Warning: ...")'
PrintWarning ==
    /\ stems.pc = "warn"
    /\ stems' = [stems EXCEPT !.pc = "main", !.returns = Append(@, "warned")]
    /\ UNCHANGED <<lyricsVars, dlVars>>

\* lines 84-95: demucs runs and saves its stems with whatever torchaudio.save
\* is now; the function returns, or its except clause does
demucs_separate_main ==
    /\ stems.pc = "main"
    /\ stems' = [stems EXCEPT !.pc = "idle", !.written_by = stems.save]
    /\ UNCHANGED <<lyricsVars, dlVars>>

InitStems ==
    /\ TimeIdle
    /\ CallIdle
    /\ DownloadIdle
    /\ \E loaded \in SUBSET {"torchaudio", "soundfile"} : stems = StemsStart(loaded)

NextStems ==
    \/ separate_demucs
    \/ patch_torchaudio_save
    \/ ImportModules
    \/ InstallSfSave
    \/ SetPatchedFlag
    \/ PrintPatched
    \/ PrintWarning
    \/ demucs_separate_main

SpecStems == InitStems /\ [][NextStems]_vars

\* whether the process stands between two statements of lines 25-35
InsidePatch == stems.pc \in {"install", "flag"}

\* what C17 says of every state: the replacement is installed at most once and
\* captured the original routine; outside the statements that install it the
\* flag is true exactly when the replacement is installed; between lines 34
\* and 35 the replacement is there and the flag not yet set
C17_State ==
    /\ stems.installs <= 1
    /\ stems.original_save \in {"none", "original"}
    /\ (stems.installs = 1) <=> (stems.save = "sf_save")
    /\ stems.torchaudio_patched => stems.save = "sf_save"
    /\ (stems.save = "sf_save" /\ ~stems.torchaudio_patched) => stems.pc = "flag"
    /\ stems.written_by = "sf_save" => stems.torchaudio_patched

\* what C17 says of every step: once the flag is true no step changes the
\* flag, the routine or what it captured, and a call that finds it true returns
\* at once; a call whose imports fail leaves the flag false and the routine
\* the original one, and the next call imports again
C17_Step ==
    /\ stems.torchaudio_patched =>
         /\ stems'.torchaudio_patched
         /\ stems'.save = stems.save
         /\ stems'.original_save = stems.original_save
         /\ stems'.installs = stems.installs
         /\ stems'.pc \notin {"import", "install", "flag", "warn"}
    /\ (stems.pc = "import" /\ stems'.pc # "install") \/ stems.pc = "warn" =>
         /\ ~stems'.torchaudio_patched
         /\ stems'.save = "original"
         /\ stems'.installs = 0
    /\ (stems.pc = "patch" /\ ~stems.torchaudio_patched) => stems'.pc = "import"

\* C17: over any sequence of calls of _patch_torchaudio_save in one process the
\* audio-save routine is replaced at most once: the flag is true exactly when
\* the replacement is installed; once it is true every later call returns
\* without changing anything, so the replacement never captures itself; a
\* call whose imports fail leaves the flag false and the routine unchanged,
\* and a later call tries again.
C17_PatchedAtMostOnce == [](C17_State) /\ [][C17_Step]_vars

\* C17 witness: a first call whose imports failed, a second that installed the
\* replacement, a third that returned at once; demucs saved with the
\* replacement
C17_Witness ==
    /\ stems.pc = "idle"
    /\ stems.returns = <<"warned", "patched", "returned at once">>
    /\ stems.torchaudio_patched
    /\ stems.save = "sf_save"
    /\ stems.installs = 1
    /\ stems.written_by = "sf_save"

====
